---- MODULE Spec2Model ----
(***************************************************************************)
(* A model of raptor's index archive (raptor_index, include/raptor/        *)
(* index.hpp) and of the query pipeline search_singular_ibf with           *)
(* do_parallel (include/raptor/search).                                    *)
(*                                                                         *)
(* Characters and archive bytes are natural numbers below 256; a string is *)
(* a sequence of characters.  Two specifications share the variables:      *)
(*   SpecIndex   building, storing and loading an index archive            *)
(*   Spec        one run of search_singular_ibf                            *)
(***************************************************************************)
EXTENDS Integers, Sequences, FiniteSets, TLC

VARIABLES
    data_t,          \* template parameter of raptor_index: "ibf" or "hibf"
    archive,         \* the bytes of the index file on disk (<<>>: no file)
    index,           \* the raptor_index object that is loaded into
    built,           \* SpecIndex: the index made by the build ("none" before)
    origin,          \* SpecIndex: "none" | "stored" | "foreign" (who wrote archive)
    lastOp,          \* SpecIndex: "none" | "load" | "params" (last read operation)
    thrown,          \* SpecIndex: whether the last read operation threw
    before,          \* SpecIndex: the index object before the last read operation
    arguments,       \* Spec: search_arguments (threads and threshold parameters)
    query_file,      \* Spec: all records of the query file
    fin,             \* Spec: number of records already taken from the file
    records,         \* Spec: the current chunk (std::vector<record_type>)
    cereal_handle,   \* Spec: state of the async load: "running" | "ready" | "failed"
    header_written,  \* Spec: the function-local static of search_singular_ibf
    synced_out,      \* Spec: the lines handed to sync_out, in order
    pc,              \* Spec: position of the main thread
    next_i,          \* Spec: next loop iteration the OpenMP runtime hands out
    omp,             \* Spec: per OpenMP thread, the worker invocation it runs
    memo_files,      \* SpecThreshold: the memo files of the index directory, by name
    error_model,     \* SpecThreshold: the error distribution of the statistical model
    th,              \* SpecThreshold: the last call of precompute_threshold
    layout,          \* SpecBuild: the nodes of the layout (ibf_graph and node_map)
    data,            \* SpecBuild: build_data (the HIBF under construction, counters)
    stack,           \* SpecBuild: the active calls of hierarchical_build, innermost last
    returns,         \* SpecBuild: the calls of hierarchical_build that have returned
    hq,              \* SpecBuild: the last membership query on the built HIBF
    fn,              \* SpecFunctions: the function applied, its arguments and its result
    minimiser_files, \* SpecBinSize: arguments.bin_path, the files of every bin with sizes
    workers,         \* SpecBinSize: the worker invocations of call_parallel_on_bins
    callback_mutex,  \* SpecBinSize: the owner of callback_mutex, 0 when it is free
    max_filesize,    \* SpecBinSize: max_filesize of kmer_count_from_minimiser_files
    biggest_file     \* SpecBinSize: biggest_file of kmer_count_from_minimiser_files

indexVars == <<built, origin, lastOp, thrown, before>>
searchVars == <<arguments, query_file, fin, records, cereal_handle, header_written,
                synced_out, pc, next_i, omp>>
thresholdVars == <<memo_files, error_model, th>>
\* the variables the index operations and the query run leave alone
buildVars == <<layout, data, stack, returns, hq>>
binSizeVars == <<minimiser_files, workers, callback_mutex, max_filesize, biggest_file>>
nonIndexVars == <<searchVars, thresholdVars, buildVars, fn, binSizeVars>>
nonSearchVars == <<indexVars, thresholdVars, buildVars, fn, binSizeVars>>
nonThresholdVars == <<data_t, archive, index, indexVars, searchVars, buildVars, fn, binSizeVars>>
vars == <<data_t, archive, index, indexVars, searchVars, thresholdVars, buildVars, fn,
          binSizeVars>>

(***************************************************************************)
(* Bounds of the model.                                                    *)
(***************************************************************************)
\* largest value of arguments.threads
MaxThreads == 2
\* largest number of records in the query file
MaxRecords == 4
\* records per chunk; stands for (1ULL << 20) * 10 of the chunk view
ChunkRecords == 3

(***************************************************************************)
(* Program constants.                                                      *)
(***************************************************************************)
version == 2
TAB == 9
COMMA == 44
NEWLINE == 10

Min(a, b) == IF a < b THEN a ELSE b

(***************************************************************************)
(* The binary archive: every value is written as its bytes, little-endian, *)
(* a vector or string as its 64-bit size followed by its elements.         *)
(***************************************************************************)
RECURSIVE WriteLE(_, _)
WriteLE(n, width) ==
    IF width = 0 THEN <<>> ELSE <<n % 256>> \o WriteLE(n \div 256, width - 1)

RECURSIVE ReadLE(_, _, _)
ReadLE(ar, pos, width) ==
    IF width = 0 THEN 0 ELSE ar[pos] + 256 * ReadLE(ar, pos + 1, width - 1)

RECURSIVE Flatten(_)
Flatten(ss) == IF ss = <<>> THEN <<>> ELSE Head(ss) \o Flatten(Tail(ss))

\* int64_t: two's complement; the model only writes values >= -1
WriteI64(v) == IF v < 0 THEN [i \in 1..8 |-> 255] ELSE WriteLE(v, 8)
ReadI64(ar, pos) == IF ar[pos + 7] = 255 THEN -1 ELSE ReadLE(ar, pos, 8)

WriteBool(b) == <<IF b THEN 1 ELSE 0>>
ReadBool(ar, pos) == ar[pos] # 0

WriteString(s) == WriteLE(Len(s), 8) \o s
ReadString(ar, pos) ==
    LET n == ReadLE(ar, pos, 8)
    IN  [v |-> SubSeq(ar, pos + 8, pos + 7 + n), p |-> pos + 8 + n]

WriteStrings(v) ==
    WriteLE(Len(v), 8) \o Flatten([i \in 1..Len(v) |-> WriteString(v[i])])

RECURSIVE ReadStringsN(_, _, _)
ReadStringsN(ar, pos, n) ==
    IF n = 0 THEN [v |-> <<>>, p |-> pos]
    ELSE LET s == ReadString(ar, pos)
             rest == ReadStringsN(ar, s.p, n - 1)
         IN  [v |-> <<s.v>> \o rest.v, p |-> rest.p]

ReadStrings(ar, pos) == ReadStringsN(ar, pos + 8, ReadLE(ar, pos, 8))

\* std::vector<std::vector<std::string>> bin_path_
WriteBinPath(bp) ==
    WriteLE(Len(bp), 8) \o Flatten([i \in 1..Len(bp) |-> WriteStrings(bp[i])])

RECURSIVE ReadBinPathN(_, _, _)
ReadBinPathN(ar, pos, n) ==
    IF n = 0 THEN [v |-> <<>>, p |-> pos]
    ELSE LET s == ReadStrings(ar, pos)
             rest == ReadBinPathN(ar, s.p, n - 1)
         IN  [v |-> <<s.v>> \o rest.v, p |-> rest.p]

ReadBinPath(ar, pos) == ReadBinPathN(ar, pos + 8, ReadLE(ar, pos, 8))

\* seqan3::shape: span byte + bitmask
WriteShape(sh) == WriteLE(sh.span, 1) \o WriteLE(sh.bits, 8)
ReadShape(ar, pos) ==
    [v |-> [span |-> ReadLE(ar, pos, 1), bits |-> ReadLE(ar, pos + 1, 8)], p |-> pos + 9]

(***************************************************************************)
(* The body.  An IBF is its technical bins, each the set of hashes the bin *)
(* answers "contained" for; a hash is a number in 1..8, so that a bin is   *)
(* one byte of the archive.  An HIBF is a vector of IBFs with next_ibf_id  *)
(* and user_bin_index.                                                     *)
(***************************************************************************)
RECURSIVE BinMask(_)
BinMask(S) ==
    IF S = {} THEN 0
    ELSE LET h == CHOOSE x \in S : TRUE IN 2 ^ (h - 1) + BinMask(S \ {h})

MaskBin(m) == {h \in 1..8 : (m \div 2 ^ (h - 1)) % 2 = 1}

WriteIbf(ibf) ==
    WriteLE(Len(ibf.bins), 8) \o [i \in 1..Len(ibf.bins) |-> BinMask(ibf.bins[i])]
ReadIbf(ar, pos) ==
    LET n == ReadLE(ar, pos, 8)
    IN  [v |-> [bins |-> [i \in 1..n |-> MaskBin(ar[pos + 7 + i])]], p |-> pos + 8 + n]

RECURSIVE ReadIbfsN(_, _, _)
ReadIbfsN(ar, pos, n) ==
    IF n = 0 THEN [v |-> <<>>, p |-> pos]
    ELSE LET s == ReadIbf(ar, pos)
             rest == ReadIbfsN(ar, s.p, n - 1)
         IN  [v |-> <<s.v>> \o rest.v, p |-> rest.p]

WriteI64s(row) ==
    WriteLE(Len(row), 8) \o Flatten([i \in 1..Len(row) |-> WriteI64(row[i])])
ReadI64s(ar, pos) ==
    LET n == ReadLE(ar, pos, 8)
    IN  [v |-> [i \in 1..n |-> ReadI64(ar, pos + 8 * i)], p |-> pos + 8 + 8 * n]

RECURSIVE ReadRowsN(_, _, _)
ReadRowsN(ar, pos, n) ==
    IF n = 0 THEN [v |-> <<>>, p |-> pos]
    ELSE LET s == ReadI64s(ar, pos)
             rest == ReadRowsN(ar, s.p, n - 1)
         IN  [v |-> <<s.v>> \o rest.v, p |-> rest.p]

WriteRows(rows) ==
    WriteLE(Len(rows), 8) \o Flatten([i \in 1..Len(rows) |-> WriteI64s(rows[i])])
ReadRows(ar, pos) == ReadRowsN(ar, pos + 8, ReadLE(ar, pos, 8))

WriteHibf(h) ==
    WriteLE(Len(h.ibf_vector), 8)
        \o Flatten([i \in 1..Len(h.ibf_vector) |-> WriteIbf(h.ibf_vector[i])])
        \o WriteRows(h.next_ibf_id)
        \o WriteRows(h.user_bin_index)
ReadHibf(ar, pos) ==
    LET ibfs == ReadIbfsN(ar, pos + 8, ReadLE(ar, pos, 8))
        nxt == ReadRows(ar, ibfs.p)
        ubi == ReadRows(ar, nxt.p)
    IN  [v |-> [ibf_vector |-> ibfs.v, next_ibf_id |-> nxt.v, user_bin_index |-> ubi.v],
         p |-> ubi.p]

\* archive(ibf_) for the data_t of the index object
WriteBody(dt, body) == IF dt = "ibf" THEN WriteIbf(body) ELSE WriteHibf(body)
ReadBody(dt, ar, pos) == IF dt = "ibf" THEN ReadIbf(ar, pos) ELSE ReadHibf(ar, pos)

\* data_t ibf_{}
DefaultBody(dt) ==
    IF dt = "ibf" THEN [bins |-> <<>>]
    ELSE [ibf_vector |-> <<>>, next_ibf_id |-> <<>>, user_bin_index |-> <<>>]

(***************************************************************************)
(* raptor_index.                                                           *)
(***************************************************************************)
\* raptor_index() = default, with the member initialisers
DefaultIndex(dt) ==
    [window_size |-> 0, shape |-> [span |-> 0, bits |-> 0], parts |-> 0,
     compressed |-> FALSE, bin_path |-> <<>>, fpr |-> 0,
     is_hibf |-> (dt = "hibf"), ibf |-> DefaultBody(dt)]

\* raptor_index(window, shape, parts, bin_path, fpr, ibf)
raptor_index(dt, window_size, shape, parts, bin_path, fpr, ibf) ==
    [DefaultIndex(dt) EXCEPT !.window_size = window_size, !.shape = shape,
                             !.parts = parts, !.bin_path = bin_path, !.fpr = fpr,
                             !.ibf = ibf]

\* position of the compressed flag: after version, window_size, shape, parts
CompressedPos == 4 + 8 + 9 + 1 + 1

\* serialize(archive) with an output archive: a faulty variant that writes parts
\* before shape
serialize_save_parts_first(ix, dt) ==
    IF ix.compressed
    THEN [thrown |-> TRUE,
          ar |-> WriteLE(version, 4) \o WriteLE(ix.window_size, 8)
                     \o WriteLE(ix.parts, 1) \o WriteShape(ix.shape)
                     \o WriteBool(ix.compressed)]
    ELSE [thrown |-> FALSE,
          ar |-> WriteLE(version, 4) \o WriteLE(ix.window_size, 8)
                     \o WriteLE(ix.parts, 1) \o WriteShape(ix.shape)
                     \o WriteBool(ix.compressed) \o WriteBinPath(ix.bin_path)
                     \o WriteLE(ix.fpr, 8) \o WriteBool(ix.is_hibf)
                     \o WriteBody(dt, ix.ibf)]

\* serialize(archive) with an output archive: archive(x) appends x
serialize_save(ix, dt) ==
    IF ix.compressed
    THEN [thrown |-> TRUE,
          ar |-> WriteLE(version, 4) \o WriteLE(ix.window_size, 8)
                     \o WriteShape(ix.shape) \o WriteLE(ix.parts, 1)
                     \o WriteBool(ix.compressed)]
    ELSE [thrown |-> FALSE,
          ar |-> WriteLE(version, 4) \o WriteLE(ix.window_size, 8)
                     \o WriteShape(ix.shape) \o WriteLE(ix.parts, 1)
                     \o WriteBool(ix.compressed) \o WriteBinPath(ix.bin_path)
                     \o WriteLE(ix.fpr, 8) \o WriteBool(ix.is_hibf)
                     \o WriteBody(dt, ix.ibf)]

\* serialize(archive) with an input archive: a faulty variant without the version check
serialize_load_any_version(ar, ix, dt) ==
    LET ws == ReadLE(ar, 5, 8)
        sh == ReadShape(ar, 13)
        pa == ReadLE(ar, sh.p, 1)
        co == ReadBool(ar, sh.p + 1)
        ix4 == [ix EXCEPT !.window_size = ws, !.shape = sh.v, !.parts = pa,
                          !.compressed = co]
    IN  IF co THEN [thrown |-> TRUE, index |-> ix4]
        ELSE LET bp == ReadBinPath(ar, sh.p + 2)
                 fp == ReadLE(ar, bp.p, 8)
                 ih == ReadBool(ar, bp.p + 8)
                 body == ReadBody(dt, ar, bp.p + 9)
             IN  [thrown |-> FALSE,
                  index |-> [ix4 EXCEPT !.bin_path = bp.v, !.fpr = fp,
                                        !.is_hibf = ih, !.ibf = body.v]]

\* serialize(archive) with an input archive: archive(x) reads x, in place
serialize_load(ar, ix, dt) ==
    LET parsed_version == ReadLE(ar, 1, 4)
    IN  IF parsed_version = version
        THEN LET ws == ReadLE(ar, 5, 8)
                 sh == ReadShape(ar, 13)
                 pa == ReadLE(ar, sh.p, 1)
                 co == ReadBool(ar, sh.p + 1)
                 ix4 == [ix EXCEPT !.window_size = ws, !.shape = sh.v, !.parts = pa,
                                   !.compressed = co]
             IN  IF co
                 THEN \* "Index cannot be compressed.", rethrown as "Cannot read index"
                      [thrown |-> TRUE, index |-> ix4]
                 ELSE LET bp == ReadBinPath(ar, sh.p + 2)
                          fp == ReadLE(ar, bp.p, 8)
                          ih == ReadBool(ar, bp.p + 8)
                          body == ReadBody(dt, ar, bp.p + 9)
                      IN  [thrown |-> FALSE,
                           index |-> [ix4 EXCEPT !.bin_path = bp.v, !.fpr = fp,
                                                 !.is_hibf = ih, !.ibf = body.v]]
        ELSE \* "Unsupported index version. Check raptor upgrade."
             [thrown |-> TRUE, index |-> ix]

\* load_parameters(archive): reads the seven parameters, not the body
load_parameters(ar, ix) ==
    LET parsed_version == ReadLE(ar, 1, 4)
    IN  IF parsed_version = version
        THEN LET ws == ReadLE(ar, 5, 8)
                 sh == ReadShape(ar, 13)
                 pa == ReadLE(ar, sh.p, 1)
                 co == ReadBool(ar, sh.p + 1)
                 bp == ReadBinPath(ar, sh.p + 2)
                 fp == ReadLE(ar, bp.p, 8)
                 ih == ReadBool(ar, bp.p + 8)
             IN  [thrown |-> FALSE,
                  index |-> [ix EXCEPT !.window_size = ws, !.shape = sh.v,
                                       !.parts = pa, !.compressed = co,
                                       !.bin_path = bp.v, !.fpr = fp, !.is_hibf = ih]]
        ELSE \* "Unsupported index version. Check raptor upgrade."
             [thrown |-> TRUE, index |-> ix]

(***************************************************************************)
(* Inputs of the build: small sets of parameters and bodies.  A file name  *)
(* is a string of characters; a hash is a number in 1..8.                  *)
(***************************************************************************)
WindowSizes == {4, 300}
Shapes == {[span |-> 4, bits |-> 15], [span |-> 5, bits |-> 27]}
BinPaths == {<< <<<<97>>>>, <<<<98>>>>, <<<<99>>>> >>,
             << <<<<97, 49>>, <<97, 50>>>>, <<<<98>>>>, <<<<99>>>> >>}
Fprs == {5, 300}

\* three technical bins = three user bins
FlatIbf == [bins |-> <<{1, 2}, {2}, {}>>]

\* root: bin 0 is user bin 0, bin 1 a merged bin pointing to IBF 1;
\* IBF 1: user bin 1 split over bins 0 and 1, user bin 2 in bin 2
SmallHibf ==
    [ibf_vector |-> <<[bins |-> <<{1, 2}, {1, 2, 3}>>],
                      [bins |-> <<{1}, {2}, {3}>>]>>,
     next_ibf_id |-> <<<<0, 1>>, <<1, 1, 1>>>>,
     user_bin_index |-> <<<<0, -1>>, <<1, 1, 2>>>>]

Bodies(dt) == IF dt = "ibf" THEN {FlatIbf, [bins |-> <<{3}>>]} ELSE {SmallHibf}

(***************************************************************************)
(* SpecIndex: an index is built, stored, and read back.  An archive that   *)
(* another program version wrote is the stored archive with its version    *)
(* field or its compressed flag changed.                                   *)
(***************************************************************************)
\* no function has been applied
FunctionsIdle == fn = [name |-> "none"]

\* the variables of kmer_count_from_minimiser_files, at rest
BinSizeIdle ==
    /\ minimiser_files = <<>>
    /\ workers = <<>>
    /\ callback_mutex = 0
    /\ max_filesize = 0
    /\ biggest_file = <<>>

\* the build variables, at rest
BuildIdle ==
    /\ layout = <<>>
    /\ data = [hibf |-> [ibf_vector |-> <<>>, next_ibf_id |-> <<>>, user_bin_index |-> <<>>],
               ibf_idx |-> 0]
    /\ stack = <<>>
    /\ returns = <<>>
    /\ hq = [asked |-> FALSE]

\* the threshold variables, at rest
ThresholdIdle ==
    /\ memo_files = {}
    /\ error_model = "uniform"
    /\ th = [called |-> FALSE, calls |-> 0]

\* the search variables, at rest
SearchIdle ==
    /\ arguments = [threads |-> 1, pattern_size |-> 2, window_size |-> 2, errors |-> 0,
                    kmer_size |-> 2]
    /\ query_file = <<>>
    /\ fin = 0
    /\ records = <<>>
    /\ cereal_handle = "running"
    /\ header_written = FALSE
    /\ synced_out = <<>>
    /\ pc = "idle"
    /\ next_i = 0
    /\ omp = <<>>

InitIndex ==
    /\ data_t \in {"ibf", "hibf"}
    /\ archive = <<>>
    /\ index = DefaultIndex(data_t)
    /\ built = [made |-> FALSE, index |-> DefaultIndex(data_t)]
    /\ origin = "none"
    /\ lastOp = "none"
    /\ thrown = FALSE
    /\ before = DefaultIndex(data_t)
    /\ SearchIdle
    /\ ThresholdIdle
    /\ BuildIdle
    /\ FunctionsIdle
    /\ BinSizeIdle

\* the build constructs the index from its arguments and the filled IBF/HIBF
BuildIndex ==
    /\ ~built.made
    /\ \E w \in WindowSizes, sh \in Shapes, bp \in BinPaths, f \in Fprs,
          body \in Bodies(data_t) :
          built' = [made |-> TRUE, index |-> raptor_index(data_t, w, sh, 1, bp, f, body)]
    /\ UNCHANGED <<data_t, archive, index, origin, lastOp, thrown, before, nonIndexVars>>

\* oarchive(index): the built index is written to the index file
StoreIndex ==
    /\ built.made
    /\ origin = "none"
    /\ LET r == serialize_save(built.index, data_t)
       IN  /\ archive' = r.ar
           /\ origin' = IF r.thrown THEN "foreign" ELSE "stored"
    /\ UNCHANGED <<data_t, index, built, lastOp, thrown, before, nonIndexVars>>

\* the index file was written with another value of raptor_index::version
ForeignVersion ==
    /\ origin \in {"stored", "foreign"}
    /\ \E v \in {version - 1, version + 1, version + 256} :
          /\ ReadLE(archive, 1, 4) # v
          /\ archive' = WriteLE(v, 4) \o SubSeq(archive, 5, Len(archive))
    /\ origin' = "foreign"
    /\ lastOp' = "none"
    /\ UNCHANGED <<data_t, index, built, thrown, before, nonIndexVars>>

\* the index file was written from a compressed index
ForeignCompressed ==
    /\ origin \in {"stored", "foreign"}
    /\ ~ReadBool(archive, CompressedPos)
    /\ archive' = [archive EXCEPT ![CompressedPos] = 1]
    /\ origin' = "foreign"
    /\ lastOp' = "none"
    /\ UNCHANGED <<data_t, index, built, thrown, before, nonIndexVars>>

\* iarchive(index): the full load
LoadIndex ==
    /\ archive # <<>>
    /\ LET r == serialize_load(archive, index, data_t)
       IN  /\ index' = r.index
           /\ thrown' = r.thrown
    /\ before' = index
    /\ lastOp' = "load"
    /\ UNCHANGED <<data_t, archive, built, origin, nonIndexVars>>

\* index.load_parameters(iarchive)
LoadParameters ==
    /\ archive # <<>>
    /\ LET r == load_parameters(archive, index)
       IN  /\ index' = r.index
           /\ thrown' = r.thrown
    /\ before' = index
    /\ lastOp' = "params"
    /\ UNCHANGED <<data_t, archive, built, origin, nonIndexVars>>

NextIndex ==
    \/ BuildIndex
    \/ StoreIndex
    \/ ForeignVersion
    \/ ForeignCompressed
    \/ LoadIndex
    \/ LoadParameters

SpecIndex == InitIndex /\ [][NextIndex]_vars

(***************************************************************************)
(* Claims about the archive.                                               *)
(***************************************************************************)
\* the seven parameter fields of an index object
Parameters(ix) ==
    <<ix.window_size, ix.shape, ix.parts, ix.compressed, ix.bin_path, ix.fpr, ix.is_hibf>>

\* C8: reading an archive whose leading version field differs from the
\* current version throws, in the full load and in load_parameters, and
\* leaves every field of the index object as it was.
C8_VersionMismatchIsFatal ==
    (lastOp # "none" /\ ReadLE(archive, 1, 4) # version)
        => (thrown /\ index = before)

\* C8 witness: a load of a version-3 archive into an index object that
\* already holds loaded values has thrown.
C8_Witness ==
    /\ lastOp \in {"load", "params"}
    /\ ReadLE(archive, 1, 4) = version + 1
    /\ thrown
    /\ before.window_size = 300
    /\ before.ibf # DefaultBody(data_t)

\* C9: reading a current-version archive whose compressed flag is set
\* throws on every load path, and the full load reads none of the fields
\* that follow the flag.
C9_CompressedFlagAborts ==
    (lastOp # "none" /\ ReadLE(archive, 1, 4) = version /\ ReadBool(archive, CompressedPos))
        => /\ thrown
           /\ lastOp = "load" =>
                  /\ index.bin_path = before.bin_path
                  /\ index.fpr = before.fpr
                  /\ index.is_hibf = before.is_hibf
                  /\ index.ibf = before.ibf

\* C10: serialize writes version, window_size, shape, parts, compressed,
\* bin_path, fpr, is_hibf and the body in this order; the full load of that
\* archive yields an index equal to the stored one in all eight fields, and
\* load_parameters of it yields its seven parameter fields (and leaves the
\* body of the object as it was).
C10_RoundTrip ==
    /\ origin = "stored" =>
           archive = WriteLE(version, 4) \o WriteLE(built.index.window_size, 8)
                         \o WriteShape(built.index.shape) \o WriteLE(built.index.parts, 1)
                         \o WriteBool(built.index.compressed)
                         \o WriteBinPath(built.index.bin_path)
                         \o WriteLE(built.index.fpr, 8) \o WriteBool(built.index.is_hibf)
                         \o WriteBody(data_t, built.index.ibf)
    /\ (origin = "stored" /\ lastOp # "none")
        => /\ ~thrown
           /\ lastOp = "load" => index = built.index
           /\ lastOp = "params" =>
                  /\ Parameters(index) = Parameters(built.index)
                  /\ index.ibf = before.ibf

\* C10 witness: a full load of a stored archive with a two-byte window
\* size, a two-file bin and a non-empty body has returned.
C10_Witness ==
    /\ origin = "stored"
    /\ lastOp = "load"
    /\ ~thrown
    /\ built.index.window_size = 300
    /\ Len(built.index.bin_path[1]) = 2
    /\ built.index.ibf # DefaultBody(data_t)
    /\ before = DefaultIndex(data_t)

(***************************************************************************)
(* The query pipeline: pure parts.                                         *)
(***************************************************************************)
\* std::to_string of an unsigned number
RECURSIVE to_string(_)
to_string(n) ==
    IF n < 10 THEN <<48 + n>> ELSE to_string(n \div 10) \o <<48 + (n % 10)>>

\* the elements of a finite set of numbers in ascending order
RECURSIVE Ascending(_)
Ascending(S) ==
    IF S = {} THEN <<>>
    ELSE LET m == CHOOSE x \in S : \A y \in S : x <= y
         IN  <<m>> \o Ascending(S \ {m})

\* seqan::hibf::divide_and_ceil
divide_and_ceil(a, b) == (a + b - 1) \div b

\* counting_agent.bulk_count: per technical bin, the number of the query's
\* hashes the bin contains
bulk_count(ibf, minimiser) ==
    [b \in 1..Len(ibf.bins) |->
        Cardinality({i \in 1..Len(minimiser) : minimiser[i] \in ibf.bins[b]})]

\* interleaved_bloom_filter bulk_contains: the bins whose count is >= threshold
ibf_bulk_contains(ibf, hashes, threshold) ==
    {j \in 0..(Len(ibf.bins) - 1) : bulk_count(ibf, hashes)[j + 1] >= threshold}

\* HIBF membership that emits the user bin of every leaf bin it sees
RECURSIVE hibf_hits_every_leaf(_, _, _, _)
hibf_hits_every_leaf(h, l, minimiser, threshold) ==
    LET c == bulk_count(h.ibf_vector[l + 1], minimiser)
        leaf == {t \in 1..Len(c) : h.next_ibf_id[l + 1][t] = l}
        merged == {t \in 1..Len(c) : h.next_ibf_id[l + 1][t] # l /\ c[t] >= threshold}
    IN  {h.user_bin_index[l + 1][t] : t \in leaf}
            \cup UNION {hibf_hits_every_leaf(h, h.next_ibf_id[l + 1][t], minimiser, threshold) :
                            t \in merged}

\* the IBFs the membership visits from IBF l on: l, and what it visits below
\* the merged bins of l that reach the threshold
RECURSIVE hibf_visited(_, _, _, _)
hibf_visited(h, l, minimiser, threshold) ==
    LET c == bulk_count(h.ibf_vector[l + 1], minimiser)
        merged == {t \in 1..Len(c) : h.next_ibf_id[l + 1][t] # l /\ c[t] >= threshold}
    IN  {l} \cup UNION {hibf_visited(h, h.next_ibf_id[l + 1][t], minimiser, threshold) :
                            t \in merged}

\* HIBF membership in IBF l (0-based): leaf bins reaching the threshold give
\* their user bin, merged bins reaching it are descended into
RECURSIVE hibf_hits(_, _, _, _)
hibf_hits(h, l, minimiser, threshold) ==
    LET c == bulk_count(h.ibf_vector[l + 1], minimiser)
        hit == {t \in 1..Len(c) : c[t] >= threshold}
        leaf == {t \in hit : h.next_ibf_id[l + 1][t] = l}
    IN  {h.user_bin_index[l + 1][t] : t \in leaf}
            \cup UNION {hibf_hits(h, h.next_ibf_id[l + 1][t], minimiser, threshold) :
                            t \in hit \ leaf}

\* membership_agent.bulk_contains: the user bin ids, deduplicated and sorted
bulk_contains(h, minimiser, threshold) == Ascending(hibf_hits(h, 0, minimiser, threshold))

\* size_t arithmetic is modular; the modulus (2^64 in the program) is scaled
\* down so that a wrapped value stays computable
SizeModulus == 2 ^ 16
USub(a, b) == (a - b + SizeModulus) % SizeModulus

\* arguments.tau is a double in (0, 1): a multiple of 1 / TauUnit
TauUnit == 10 ^ 7

RECURSIVE SumSeq(_)
SumSeq(s) == IF s = <<>> THEN 0 ELSE Head(s) + SumSeq(Tail(s))

\* detail::enumerate_all_errors(i, errors, proba): the weight of "i minimisers
\* are destroyed by the errors", before it is normalised.  The statistical
\* model is one of three families; each gives a positive total weight.
enumerate_all_errors(i, errors, n) ==
    CASE error_model = "uniform" -> 1
      [] error_model = "point" -> IF i = Min(errors, n - 1) THEN 1 ELSE 0
      [] error_model = "falling" -> IF i <= errors THEN n - i ELSE 0

\* proba_error of the loop, for number_of_minimizers = n
proba_error(a, n) == [j \in 1..n |-> enumerate_all_errors(j - 1, a.errors, n)]

\* one pass of the loop over number_of_minimizers without the break: an entry
\* is appended for every i at which the accumulated mass has reached tau
thresholds_push_back_no_break(a, n) ==
    LET pe == proba_error(a, n)
        sum == SumSeq(pe)
        reach(i) == sum > 0 /\ SumSeq(SubSeq(pe, 1, i + 1)) * TauUnit >= a.tau * sum
    IN  Flatten([j \in 1..n |-> IF reach(j - 1) THEN <<n - (j - 1)>> ELSE <<>>])

\* one pass of the loop that appends number_of_minimizers - i - 1
thresholds_push_back_one_less(a, n) ==
    LET pe == proba_error(a, n)
        sum == SumSeq(pe)
        reach == {i \in 0..(n - 1) :
                    sum > 0 /\ SumSeq(SubSeq(pe, 1, i + 1)) * TauUnit >= a.tau * sum}
    IN  IF reach = {} THEN <<>>
        ELSE <<n - (CHOOSE i \in reach : \A j \in reach : i <= j) - 1>>

\* one pass of the loop over number_of_minimizers: the normalised proba_error
\* is accumulated from i = 0, and number_of_minimizers - i is appended for the
\* first i at which the mass is >= tau (x /= sum with sum = 0 gives NaN, and
\* NaN >= tau is false: nothing is appended)
thresholds_push_back(a, n) ==
    LET pe == proba_error(a, n)
        sum == SumSeq(pe)
        reach == {i \in 0..(n - 1) :
                    sum > 0 /\ SumSeq(SubSeq(pe, 1, i + 1)) * TauUnit >= a.tau * sum}
    IN  IF reach = {} THEN <<>>
        ELSE <<n - (CHOOSE i \in reach : \A j \in reach : i <= j)>>

\* the general case: one pass for every number of minimisers in
\* [minimal_number_of_minimizers, maximal_number_of_minimizers]
general_thresholds(a) ==
    LET kmers_per_window == a.window_size - a.kmer_size + 1
        kmers_per_pattern == a.pattern_size - a.kmer_size + 1
        minimal_number_of_minimizers == kmers_per_pattern \div kmers_per_window
        maximal_number_of_minimizers == a.pattern_size - a.window_size + 1
    IN  Flatten([j \in 1..(maximal_number_of_minimizers - minimal_number_of_minimizers + 1) |->
                    thresholds_push_back(a, minimal_number_of_minimizers + j - 1)])

\* precompute_threshold without the comparison in front of the subtraction
precompute_threshold_unguarded(a) ==
    IF a.window_size = a.kmer_size
    THEN <<USub(a.pattern_size + 1, (a.errors + 1) * a.kmer_size)>>
    ELSE general_thresholds(a)

\* precompute_threshold, the table it computes when there is neither a user
\* threshold nor a memo file: one element for window_size == kmer_size
precompute_threshold(a) ==
    IF a.window_size = a.kmer_size
    THEN <<IF a.pattern_size + 1 > (a.errors + 1) * a.kmer_size
           THEN USub(a.pattern_size + 1, (a.errors + 1) * a.kmer_size)
           ELSE 0>>
    ELSE general_thresholds(a)

\* thresholder.get(minimiser_count): the entry of the table for the count
thresholder_get(a, minimiser_count) ==
    LET table == precompute_threshold(a)
    IN  table[Min(minimiser_count, Len(table) - 1) + 1]

\* an IBF branch that lists a bin only if its count exceeds the threshold
RECURSIVE append_counts_strict(_, _, _, _)
append_counts_strict(result_string, result, threshold, current_bin) ==
    IF current_bin >= Len(result) THEN result_string
    ELSE append_counts_strict(IF result[current_bin + 1] > threshold
                              THEN result_string \o to_string(current_bin) \o <<COMMA>>
                              ELSE result_string,
                              result, threshold, current_bin + 1)

\* the IBF branch: for (count : result) if (count >= threshold) append bin and ','
RECURSIVE append_counts(_, _, _, _)
append_counts(result_string, result, threshold, current_bin) ==
    IF current_bin >= Len(result) THEN result_string
    ELSE append_counts(IF result[current_bin + 1] >= threshold
                       THEN result_string \o to_string(current_bin) \o <<COMMA>>
                       ELSE result_string,
                       result, threshold, current_bin + 1)

\* the HIBF branch: for (count : result) append user bin and ','
RECURSIVE append_bins(_, _)
append_bins(result_string, result) ==
    IF result = <<>> THEN result_string
    ELSE append_bins(result_string \o to_string(Head(result)) \o <<COMMA>>, Tail(result))

\* a faulty variant that always appends the newline
end_line_append(result_string) == Append(result_string, NEWLINE)

\* if (last_char == ',') last_char = '\n'; else result_string += '\n';
end_line(result_string) ==
    IF result_string[Len(result_string)] = COMMA
    THEN [result_string EXCEPT ![Len(result_string)] = NEWLINE]
    ELSE Append(result_string, NEWLINE)

\* the hit list of a query: the bins of the IBF whose count reaches the
\* threshold, or the user bins the HIBF membership agent returns
query_hits(dt, ix, minimiser, threshold) ==
    IF dt = "ibf"
    THEN LET result == bulk_count(ix.ibf, minimiser)
         IN  Ascending({b - 1 : b \in {b \in 1..Len(result) : result[b] >= threshold}})
    ELSE bulk_contains(ix.ibf, minimiser, threshold)

\* the body of the worker's loop for one record: the line handed to synced_out
result_line(dt, ix, a, record) ==
    LET threshold == thresholder_get(a, Len(record.minimiser))
        start == record.id \o <<TAB>>
    IN  end_line(IF dt = "ibf"
                 THEN append_counts(start, bulk_count(ix.ibf, record.minimiser), threshold, 0)
                 ELSE append_bins(start, bulk_contains(ix.ibf, record.minimiser, threshold)))

\* "#QUERY_NAME\tUSER_BINS\n"
HeaderLine ==
    <<35, 81, 85, 69, 82, 89, 95, 78, 65, 77, 69, TAB,
      85, 83, 69, 82, 95, 66, 73, 78, 83, NEWLINE>>

\* sync_out.write_header: one line "#<user bin>\t<file>" per user bin, then
\* the header line
header_lines(ix) ==
    [i \in 1..Len(ix.bin_path) |->
        [kind |-> "user_bin", rec |-> 0, inv |-> <<>>, hits |-> <<>>,
         text |-> <<35>> \o to_string(i - 1) \o <<TAB>> \o ix.bin_path[i][1] \o <<NEWLINE>>]]
    \o <<[kind |-> "header", rec |-> 0, inv |-> <<>>, hits |-> <<>>, text |-> HeaderLine]>>

\* do_parallel in which the last chunk is as long as every other chunk
do_parallel_range_even(i, num_records, threads) ==
    LET chunk_size == divide_and_ceil(num_records, threads * threads)
    IN  [start |-> chunk_size * i, extent |-> chunk_size]

\* do_parallel: the start and extent of loop iteration i
do_parallel_range(i, num_records, threads) ==
    LET chunk_size == divide_and_ceil(num_records, threads * threads)
        number_of_chunks == divide_and_ceil(num_records, chunk_size)
    IN  [start |-> chunk_size * i,
         extent |-> IF i = number_of_chunks - 1 THEN num_records - i * chunk_size
                    ELSE chunk_size]

\* do_parallel: the number of loop iterations
number_of_chunks(num_records, threads) ==
    divide_and_ceil(num_records, divide_and_ceil(num_records, threads * threads))

\* do_parallel(worker, num_records, threads, output_results): the start and
\* extent of the task of thread i
do_parallel_async_range(i, num_records, threads) ==
    LET records_per_thread == num_records \div threads
    IN  [start |-> records_per_thread * i,
         extent |-> IF i = threads - 1 THEN num_records - i * records_per_thread
                    ELSE records_per_thread]

\* seqan3::views::slice(records, start, end): throws std::invalid_argument
\* when end < start, else drops start and takes end - start elements
slice(size, start, end) ==
    IF end < start THEN [throws |-> TRUE, cur |-> 0, last |-> 0]
    ELSE [throws |-> FALSE, cur |-> Min(start, size), last |-> Min(end, size)]

\* a faulty variant of the wait that does not block
cereal_handle_no_wait == TRUE

\* cereal_handle.wait() returns once the asynchronous task has finished
cereal_handle_wait == cereal_handle # "running"

\* a faulty variant in which header_written is not static: initialised in every pass
header_written_every_pass == FALSE

\* the static header_written is initialised, by write_header(), only the
\* first time control passes its declaration
header_written_initialised == header_written

\* ibf_vector[0] of an HIBF that was not loaded: undefined behaviour
HibfUnloaded == data_t = "hibf" /\ index.ibf.ibf_vector = <<>>

(***************************************************************************)
(* Spec: one run of search_singular_ibf.                                   *)
(***************************************************************************)
\* the id of the i-th record of the query file: "q1", "q2,", "q3", ...
RecordId(i) == <<113>> \o to_string(i) \o (IF i % 2 = 0 THEN <<COMMA>> ELSE <<>>)

\* the minimisers of a record: none, or two hashes
Sketches == {<<>>, <<1, 2>>}

QueryFiles ==
    UNION {{[i \in 1..n |-> [id |-> RecordId(i), minimiser |-> sk[i]]] :
                sk \in [1..n -> Sketches]} : n \in 0..MaxRecords}

\* (pattern_size, errors, kmer_size) with window_size = kmer_size
ThresholdParameters == {<<2, 0, 2>>, <<3, 0, 2>>, <<2, 1, 2>>}

\* the index file of the run: written by the build, by another program
\* version, or from a compressed index
IndexFiles(dt) ==
    LET body == IF dt = "ibf" THEN FlatIbf ELSE SmallHibf
        bp == << <<<<97>>>>, <<<<98>>>>, <<<<99>>>> >>
        good == serialize_save(
                    raptor_index(dt, 4, [span |-> 2, bits |-> 3], 1, bp, 5, body), dt).ar
    IN  {good,
         WriteLE(version + 1, 4) \o SubSeq(good, 5, Len(good)),
         [good EXCEPT ![CompressedPos] = 1]}

IndexIdle ==
    /\ built = [made |-> FALSE, index |-> DefaultIndex(data_t)]
    /\ origin = "none"
    /\ lastOp = "none"
    /\ thrown = FALSE
    /\ before = DefaultIndex(data_t)

Idle == [st |-> "idle", inv |-> 0, cur |-> 0, last |-> 0]

Init ==
    /\ data_t \in {"ibf", "hibf"}
    /\ archive \in IndexFiles(data_t)
    /\ index = DefaultIndex(data_t)
    /\ IndexIdle
    /\ ThresholdIdle
    /\ BuildIdle
    /\ FunctionsIdle
    /\ BinSizeIdle
    /\ \E t \in 1..MaxThreads, tp \in ThresholdParameters :
          arguments = [threads |-> t, pattern_size |-> tp[1], window_size |-> tp[3],
                       errors |-> tp[2], kmer_size |-> tp[3]]
    /\ query_file \in QueryFiles
    /\ fin = 0
    /\ records = <<>>
    /\ cereal_handle = "running"
    /\ header_written = FALSE
    /\ synced_out = <<>>
    /\ pc = "read"
    /\ next_i = 0
    /\ omp = [t \in 1..arguments.threads |-> Idle]

\* the asynchronous task: load_index(index, arguments); an exception is
\* kept in the future
cereal_worker ==
    /\ cereal_handle = "running"
    /\ LET r == serialize_load(archive, index, data_t)
       IN  /\ index' = r.index
           /\ cereal_handle' = IF r.thrown THEN "failed" ELSE "ready"
    /\ UNCHANGED <<data_t, archive, nonSearchVars, arguments, query_file, fin, records,
                   header_written, synced_out, pc, next_i, omp>>

\* the chunk view yields the next chunk, which is moved into records
ReadChunk ==
    /\ pc = "read"
    /\ fin < Len(query_file)
    /\ LET n == Min(ChunkRecords, Len(query_file) - fin)
       IN  /\ records' = SubSeq(query_file, fin + 1, fin + n)
           /\ fin' = fin + n
    /\ pc' = "wait"
    /\ UNCHANGED <<data_t, archive, index, nonSearchVars, arguments, query_file,
                   cereal_handle, header_written, synced_out, next_i, omp>>

\* cereal_handle.wait()
Wait ==
    /\ pc = "wait"
    /\ cereal_handle_wait
    /\ pc' = "header"
    /\ UNCHANGED <<data_t, archive, index, nonSearchVars, arguments, query_file, fin, records,
                   cereal_handle, header_written, synced_out, next_i, omp>>

\* static bool header_written = write_header(); then do_parallel starts
WriteHeader ==
    /\ pc = "header"
    /\ \/ /\ ~header_written_initialised
          /\ synced_out' = synced_out \o header_lines(index)
          /\ header_written' = TRUE
          /\ pc' = "parallel"
       \/ /\ ~header_written_initialised
          /\ HibfUnloaded
          /\ pc' = "crashed"
          /\ UNCHANGED <<synced_out, header_written>>
       \/ /\ header_written_initialised
          /\ pc' = "parallel"
          /\ UNCHANGED <<synced_out, header_written>>
    /\ next_i' = 0
    /\ UNCHANGED <<data_t, archive, index, nonSearchVars, arguments, query_file, fin, records,
                   cereal_handle, omp>>

\* an idle OpenMP thread takes the next loop iteration and invokes the
\* worker, which slices records; an exception leaving the parallel region
\* terminates the program
OmpDispatch(t) ==
    /\ pc = "parallel"
    /\ omp[t].st = "idle"
    /\ next_i < number_of_chunks(Len(records), arguments.threads)
    /\ LET r == do_parallel_range(next_i, Len(records), arguments.threads)
           sl == slice(Len(records), r.start, r.extent)
       IN  IF sl.throws
           THEN /\ pc' = "terminated"
                /\ UNCHANGED omp
           ELSE /\ omp' = [omp EXCEPT ![t] = [st |-> "run", inv |-> next_i, cur |-> sl.cur, last |-> sl.last]]
                /\ pc' = pc
    /\ next_i' = next_i + 1
    /\ UNCHANGED <<data_t, archive, index, nonSearchVars, arguments, query_file, fin, records,
                   cereal_handle, header_written, synced_out>>

\* a range-for that walks the slice from its back
slice_element_from_back(cur, last) == last - cur

\* the range-for over records | slice(start, end): the position in records
\* (from 1) of the element at offset cur
slice_element(cur, last) == cur + 1

\* one pass of the worker's loop: the line of the next record of the slice
\* is built and written
WorkerStep(t) ==
    /\ pc = "parallel"
    /\ omp[t].st = "run"
    /\ omp[t].cur < omp[t].last
    /\ LET record == records[slice_element(omp[t].cur, omp[t].last)]
           rec == fin - Len(records) + slice_element(omp[t].cur, omp[t].last)
           inv == <<fin, omp[t].inv>>
           threshold == thresholder_get(arguments, Len(record.minimiser))
       IN  \/ /\ ~HibfUnloaded
              /\ synced_out' = Append(synced_out,
                     [kind |-> "result", rec |-> rec, inv |-> inv,
                      hits |-> query_hits(data_t, index, record.minimiser, threshold),
                      text |-> result_line(data_t, index, arguments, record)])
              /\ omp' = [omp EXCEPT ![t].cur = @ + 1]
              /\ pc' = pc
           \/ /\ HibfUnloaded
              /\ synced_out' = Append(synced_out,
                     [kind |-> "result", rec |-> rec, inv |-> inv, hits |-> <<>>,
                      text |-> end_line(record.id \o <<TAB>>)])
              /\ omp' = [omp EXCEPT ![t].cur = @ + 1]
              /\ pc' = pc
           \/ /\ HibfUnloaded
              /\ pc' = "crashed"
              /\ UNCHANGED <<synced_out, omp>>
    /\ UNCHANGED <<data_t, archive, index, nonSearchVars, arguments, query_file, fin, records,
                   cereal_handle, header_written, next_i>>

\* the worker's loop is over; the invocation returns
WorkerReturn(t) ==
    /\ pc = "parallel"
    /\ omp[t].st = "run"
    /\ omp[t].cur = omp[t].last
    /\ omp' = [omp EXCEPT ![t] = Idle]
    /\ UNCHANGED <<data_t, archive, index, nonSearchVars, arguments, query_file, fin, records,
                   cereal_handle, header_written, synced_out, pc, next_i>>

\* the end of the parallel region: all iterations are done
OmpJoin ==
    /\ pc = "parallel"
    /\ next_i = number_of_chunks(Len(records), arguments.threads)
    /\ \A t \in DOMAIN omp : omp[t].st = "idle"
    /\ pc' = "read"
    /\ UNCHANGED <<data_t, archive, index, nonSearchVars, arguments, query_file, fin, records,
                   cereal_handle, header_written, synced_out, next_i, omp>>

\* the chunk loop is over; the future's destructor waits for the task
Return ==
    /\ pc = "read"
    /\ fin = Len(query_file)
    /\ cereal_handle # "running"
    /\ pc' = "done"
    /\ UNCHANGED <<data_t, archive, index, nonSearchVars, arguments, query_file, fin, records,
                   cereal_handle, header_written, synced_out, next_i, omp>>

Next ==
    \/ cereal_worker
    \/ ReadChunk
    \/ Wait
    \/ WriteHeader
    \/ \E t \in DOMAIN omp : OmpDispatch(t)
    \/ \E t \in DOMAIN omp : WorkerStep(t)
    \/ \E t \in DOMAIN omp : WorkerReturn(t)
    \/ OmpJoin
    \/ Return

Spec == Init /\ [][Next]_vars

(***************************************************************************)
(* Claims about the query pipeline.                                        *)
(***************************************************************************)
ResultCells == SelectSeq(synced_out, LAMBDA c : c.kind = "result")
HeaderCells == SelectSeq(synced_out, LAMBDA c : c.kind = "header")
ResultTexts == {ResultCells[j].text : j \in 1..Len(ResultCells)}

\* the lines of a run with threads = 1: do_parallel then invokes the worker
\* once per chunk with (0, records.size()), so every record gets its line
SingleThreadTexts ==
    {result_line(data_t, index, arguments, query_file[i]) : i \in 1..Len(query_file)}

IsPrefix(p, t) == Len(p) <= Len(t) /\ SubSeq(t, 1, Len(p)) = p

\* hit bin ids separated by single commas
RECURSIVE JoinComma(_)
JoinComma(hits) ==
    IF hits = <<>> THEN <<>>
    ELSE IF Len(hits) = 1 THEN to_string(hits[1])
    ELSE to_string(hits[1]) \o <<COMMA>> \o JoinComma(Tail(hits))

\* the run returned to its caller and the index was loaded
Successful == pc = "done" /\ cereal_handle = "ready"

\* a run with one thread writes the line of every record
SingleThreadWritesAll == (Successful /\ arguments.threads = 1) => ResultTexts = SingleThreadTexts

\* C1: the set of result lines of a successful run is the set a run with
\* threads = 1 produces, for every thread count.
C1_LinesIndependentOfThreads == Successful => ResultTexts = SingleThreadTexts

\* C2: a successful search of a file with R >= 1 records writes exactly R
\* result lines after the header, one per record id, and nothing follows
\* the last result line.
C2_OneLinePerRecord ==
    (Successful /\ Len(query_file) >= 1)
        => /\ Len(ResultCells) = Len(query_file)
           /\ \A i \in 1..Len(query_file) :
                  Cardinality({j \in 1..Len(ResultCells) :
                      IsPrefix(query_file[i].id \o <<TAB>>, ResultCells[j].text)}) = 1
           /\ \A j \in 1..Len(synced_out) :
                  synced_out[j].kind = "header" =>
                      \A l \in (j + 1)..Len(synced_out) : synced_out[l].kind = "result"

C4_LineFormat ==
    \A j \in 1..Len(ResultCells) :
        LET c == ResultCells[j]
            n == Len(c.text)
        IN  /\ c.text = query_file[c.rec].id \o <<TAB>> \o JoinComma(c.hits) \o <<NEWLINE>>
            /\ c.text[n] = NEWLINE
            /\ \A l \in 1..(n - 1) : c.text[l] # NEWLINE
            /\ c.text[n - 1] # COMMA
            /\ c.hits = <<>> => c.text = query_file[c.rec].id \o <<TAB, NEWLINE>>

\* C4 witness: a line with two hit bins and a line without hits, of a
\* record whose id ends in a comma, have been written.
C4_Witness ==
    /\ \E j \in 1..Len(ResultCells) : Len(ResultCells[j].hits) >= 2
    /\ \E j \in 1..Len(ResultCells) :
           /\ ResultCells[j].hits = <<>>
           /\ ResultCells[j].rec % 2 = 0

\* C5: the line of a record without minimisers has an empty hit list, for
\* every threshold and in both branches of the worker.
C5_EmptySketchEmptyHits ==
    \A j \in 1..Len(ResultCells) :
        LET c == ResultCells[j]
        IN  query_file[c.rec].minimiser = <<>>
                => c.text = query_file[c.rec].id \o <<TAB, NEWLINE>>

\* C6: while the asynchronous load is running, no header and no result
\* line has been written, the main thread is not at write_header or in
\* do_parallel, and no worker invocation runs.
C6_LoadFinishedBeforeUse ==
    cereal_handle = "running"
        => /\ synced_out = <<>>
           /\ ~header_written
           /\ pc \in {"read", "wait"}
           /\ \A t \in DOMAIN omp : omp[t].st = "idle"

\* C6 witness: a worker invocation is running on the loaded index after the
\* first chunk was read while the load was still running.
C6_Witness ==
    /\ cereal_handle = "ready"
    /\ pc = "parallel"
    /\ \E t \in DOMAIN omp : omp[t].st = "run" /\ omp[t].cur < omp[t].last
    /\ Len(HeaderCells) = 1

\* C7: when load_index has thrown, the run does not return normally, no
\* worker runs, and no result line is written.
C7_LoadFailureReachesCaller ==
    cereal_handle = "failed"
        => /\ pc # "done"
           /\ \A t \in DOMAIN omp : omp[t].st = "idle"
           /\ ResultCells = <<>>

(***************************************************************************)
(* SpecThreshold: calls of precompute_threshold in one index directory.    *)
(* A memo file written by one call is there for the calls after it.        *)
(***************************************************************************)
\* number of calls of precompute_threshold in a behaviour
MaxCalls == 2

\* std::to_string(double): "%f", six digits after the point, rounded
tau_to_string(tau) ==
    LET r == (tau + 5) \div 10
        frac == r % 10 ^ 6
    IN  to_string(r \div 10 ^ 6) \o <<46>>
            \o [d \in 1..6 |-> 48 + ((frac \div 10 ^ (6 - d)) % 10)]

\* seqan3::shape::to_string: the bits, most significant first
shape_to_string(sh) == [d \in 1..sh.span |-> 48 + ((sh.bits \div 2 ^ (sh.span - d)) % 2)]

\* "binary_p" p "_w" w "_k" shape "_e" e "_tau" tau, in the directory of the index
memo_filename(a) ==
    <<98, 105, 110, 97, 114, 121, 95, 112>> \o to_string(a.pattern_size)
        \o <<95, 119>> \o to_string(a.window_size)
        \o <<95, 107>> \o shape_to_string(a.shape)
        \o <<95, 101>> \o to_string(a.errors)
        \o <<95, 116, 97, 117>> \o tau_to_string(a.tau)

\* cereal, std::vector<size_t>: the size, then the elements, 8 bytes each
WriteSizes(vec) == WriteLE(Len(vec), 8) \o Flatten([i \in 1..Len(vec) |-> WriteLE(vec[i], 8)])
ReadSizes(ar) == [i \in 1..ReadLE(ar, 1, 8) |-> ReadLE(ar, 1 + 8 * i, 8)]

\* std::filesystem::exists(filename)
exists(files, filename) == \E f \in files : f.name = filename

\* do_cerealisation_out: the file of the arguments is created or overwritten
do_cerealisation_out(vec, a, files) ==
    {f \in files : f.name # memo_filename(a)}
        \cup {[name |-> memo_filename(a), content |-> WriteSizes(vec)]}

\* do_cerealisation_in that never finds the file
do_cerealisation_in_not_found(a, files) == [found |-> FALSE, vec |-> <<>>]

\* do_cerealisation_in: false when the file does not exist, else its content
do_cerealisation_in(a, files) ==
    IF ~exists(files, memo_filename(a))
    THEN [found |-> FALSE, vec |-> <<>>]
    ELSE LET f == CHOOSE g \in files : g.name = memo_filename(a)
         IN  [found |-> TRUE, vec |-> ReadSizes(f.content)]

\* search_arguments of the calls
ThresholdShapes == {[span |-> 2, bits |-> 3], [span |-> 3, bits |-> 5]}
Taus == {4999996, 5000004}
ThresholdArguments ==
    {[pattern_size |-> p, window_size |-> w, shape |-> sh, kmer_size |-> sh.span,
      errors |-> e, tau |-> tau, threshold |-> FALSE] :
        p \in 2..6, w \in 2..4, sh \in ThresholdShapes, e \in 0..2, tau \in Taus}

InitThreshold ==
    /\ data_t = "ibf"
    /\ archive = <<>>
    /\ index = DefaultIndex(data_t)
    /\ IndexIdle
    /\ SearchIdle
    /\ BuildIdle
    /\ FunctionsIdle
    /\ BinSizeIdle
    /\ memo_files = {}
    /\ error_model \in {"uniform", "point", "falling"}
    /\ th = [called |-> FALSE, calls |-> 0]

\* std::vector<size_t> precompute_threshold(search_arguments const & arguments)
PrecomputeThreshold ==
    /\ th.calls < MaxCalls
    /\ \E a0 \in ThresholdArguments, user \in BOOLEAN :
          LET a == [a0 EXCEPT !.threshold = user]
              in == do_cerealisation_in(a, memo_files)
              computed == ~a.threshold /\ ~in.found
              thresholds == IF a.threshold THEN <<>>
                            ELSE IF in.found THEN in.vec
                            ELSE precompute_threshold(a)
          IN  /\ a.window_size \in {a.kmer_size, a.kmer_size + 1}
              /\ a.pattern_size \in {a.window_size, a.window_size + 2}
              /\ user => (a.errors = 0 /\ a.tau = 4999996)
              /\ memo_files' = IF computed /\ a.window_size # a.kmer_size
                               THEN do_cerealisation_out(thresholds, a, memo_files)
                               ELSE memo_files
              /\ th' = [called |-> TRUE, calls |-> th.calls + 1, arguments |-> a,
                        files |-> memo_files, thresholds |-> thresholds,
                        computed |-> computed,
                        previous |-> IF th.called
                                     THEN <<[arguments |-> th.arguments,
                                             thresholds |-> th.thresholds]>>
                                     ELSE <<>>]
    /\ UNCHANGED <<nonThresholdVars, error_model>>

NextThreshold == PrecomputeThreshold

SpecThreshold == InitThreshold /\ [][NextThreshold]_vars

(***************************************************************************)
(* Claims about precompute_threshold.                                      *)
(***************************************************************************)
\* the last call had no user threshold and found no memo file
Computed == th.called /\ th.computed
MemoBefore == exists(th.files, memo_filename(th.arguments))
NMin(a) == (a.pattern_size - a.kmer_size + 1) \div (a.window_size - a.kmer_size + 1)
NMax(a) == a.pattern_size - a.window_size + 1

\* C11: for window_size = kmer_size, without user threshold and memo file, the
\* table has exactly one element, max(0, p + 1 - (e + 1) * k); the element is
\* never a wrapped-around difference.
C11_ClosedFormForWEqualsK ==
    (Computed /\ th.arguments.window_size = th.arguments.kmer_size)
        => LET a == th.arguments
               d == a.pattern_size + 1 - (a.errors + 1) * a.kmer_size
           IN  /\ Len(th.thresholds) = 1
               /\ th.thresholds[1] = IF d > 0 THEN d ELSE 0
               /\ th.thresholds[1] <= a.pattern_size + 1

C11_Witness ==
    /\ Computed
    /\ th.arguments.window_size = th.arguments.kmer_size
    /\ (th.arguments.errors + 1) * th.arguments.kmer_size > th.arguments.pattern_size + 1
    /\ th.thresholds = <<0>>

\* C13: in the general case (w > k, p >= w, no user threshold, no memo file)
\* the table has n_max - n_min + 1 entries, it is not empty, and entry i is a
\* threshold for n_min + i minimisers: a number in 1..(n_min + i).
C13_OneEntryPerMinimiserCount ==
    (Computed /\ th.arguments.window_size > th.arguments.kmer_size
              /\ th.arguments.pattern_size >= th.arguments.window_size)
        => LET a == th.arguments
           IN  /\ Len(th.thresholds) = NMax(a) - NMin(a) + 1
               /\ Len(th.thresholds) # 0
               /\ \A i \in 1..Len(th.thresholds) :
                     th.thresholds[i] \in 1..(NMin(a) + i - 1)

C13_Witness ==
    /\ Computed
    /\ th.arguments.window_size > th.arguments.kmer_size
    /\ NMax(th.arguments) > NMin(th.arguments)
    /\ Len(th.thresholds) = 2
    /\ th.thresholds[1] < NMin(th.arguments)

\* the parameter tuple a memo file is meant to be keyed by
MemoKey(a) == <<a.pattern_size, a.window_size, shape_to_string(a.shape), a.errors, a.tau>>

\* C14: a call that computes a table (no memo file was present) leaves the
\* memo file of its parameter tuple behind, holding the returned table, and
\* two calls with different parameter tuples never use the same memo file.
C14_ComputedTableIsPersisted ==
    /\ Computed
          => \E f \in memo_files :
                /\ f.name = memo_filename(th.arguments)
                /\ ReadSizes(f.content) = th.thresholds
    /\ (th.called /\ th.previous # <<>>
                   /\ MemoKey(th.previous[1].arguments) # MemoKey(th.arguments))
          => memo_filename(th.previous[1].arguments) # memo_filename(th.arguments)

INVALID == 0

\* interleaved_bloom_filter::emplace that forgets what the bin held
emplace_overwrite(ibf, value, bin) == [bins |-> [ibf.bins EXCEPT ![bin + 1] = {value}]]

\* interleaved_bloom_filter::emplace(value, bin): the bits of the value are set
emplace(ibf, value, bin) == [bins |-> [ibf.bins EXCEPT ![bin + 1] = @ \cup {value}]]

\* chunks of kmers.size() / number_of_bins values (at least one)
chunk_bin_floor(kmers, number_of_bins, bin_index, r) ==
    LET q == Cardinality(kmers) \div number_of_bins
    IN  bin_index + (r - 1) \div (IF q = 0 THEN 1 ELSE q)

\* the technical bin insert_into_ibf puts the r-th value (r = 1, 2, ...) of
\* the set into: chunks of kmers.size() / number_of_bins + 1 values
chunk_bin(kmers, number_of_bins, bin_index, r) ==
    bin_index + (r - 1) \div (Cardinality(kmers) \div number_of_bins + 1)

\* insert_into_ibf(kmers, number_of_bins, bin_index, ibf, timer)
insert_into_ibf(kmers, number_of_bins, bin_index, ibf) ==
    LET order == Ascending(kmers)
        F[r \in 0..Len(order)] ==
            IF r = 0 THEN ibf
            ELSE emplace(F[r - 1], order[r], chunk_bin(kmers, number_of_bins, bin_index, r))
    IN  F[Len(order)]

\* the (value, bin) pairs of the emplace calls of insert_into_ibf
emplace_calls(kmers, number_of_bins, bin_index) ==
    LET order == Ascending(kmers)
    IN  {<<order[r], chunk_bin(kmers, number_of_bins, bin_index, r)>> : r \in 1..Len(order)}

\* insert_into_ibf(data, record, ibf): every value of the record goes into
\* the record's technical bin
insert_into_ibf_record(record, ibf) == insert_into_ibf(record.hashes, 1, record.bin_index, ibf)

\* insert_into_ibf(parent_kmers, kmers, number_of_bins, bin_index, ibf, is_root, ...):
\* as insert_into_ibf, and below the root the values are added to parent_kmers
insert_into_ibf_parent(parent_kmers, kmers, number_of_bins, bin_index, ibf, is_root) ==
    [ibf |-> insert_into_ibf(kmers, number_of_bins, bin_index, ibf),
     parent_kmers |-> IF is_root THEN parent_kmers ELSE parent_kmers \cup kmers]

\* construct_ibf: an IBF of number_of_technical_bins bins, with the k-mers of
\* the max bin inserted (and handed to the parent below the root)
construct_ibf(parent_kmers, kmers, max_bin_tbs, node_data, is_root) ==
    insert_into_ibf_parent(parent_kmers, kmers, max_bin_tbs, node_data.max_bin_index,
                           [bins |-> [t \in 1..node_data.number_of_technical_bins |-> {}]],
                           is_root)

\* compute_kmers(kmers, arguments, record)
compute_kmers(kmers, record) == kmers \cup record.hashes

\* update_user_bins(data, filename_indices, record): the user bin of the
\* record, for each of its number_of_bins technical bins
update_user_bins(filename_indices, record) ==
    [t \in DOMAIN filename_indices |->
        IF (t - 1) \in record.bin_index..(record.bin_index + record.number_of_bins - 1)
        THEN record.idx ELSE filename_indices[t]]

\* hierarchical_build, lines 32-38: the position of the IBF and the vectors
hierarchical_build_enter(node, is_root) ==
    [node |-> node, is_root |-> is_root, ibf_pos |-> data.ibf_idx,
     ibf_positions |-> [t \in 1..layout[node].number_of_technical_bins |-> data.ibf_idx],
     filename_indices |-> [t \in 1..layout[node].number_of_technical_bins |-> -1],
     kmers |-> {}, parent_kmers |-> {}, ibf |-> [bins |-> <<>>], max_bin_tbs |-> 0,
     c |-> 0, i |-> 0, emplaced |-> {}, inserted |-> <<>>, updated |-> <<>>,
     pc |-> "max_bin"]

\* the favourite child has returned, but its position is not stored
favourite_child_returned_dropped(frame, ibf_pos, child_kmers) ==
    [frame EXCEPT !.kmers = child_kmers, !.max_bin_tbs = 1, !.pc = "construct"]

\* initialise_max_bin_kmers, the max bin is a merged bin: the position the
\* call for the favourite child returned is stored for max_bin_index; the
\* call has filled kmers
favourite_child_returned(frame, ibf_pos, child_kmers) ==
    [frame EXCEPT !.ibf_positions[layout[frame.node].max_bin_index + 1] = ibf_pos,
                  !.kmers = child_kmers, !.max_bin_tbs = 1, !.pc = "construct"]

\* loop_over_children, a child has returned: its position is stored for its
\* bin, its k-mers are inserted into the bin and handed to the parent
child_returned(frame, ibf_pos, child_kmers) ==
    LET bin == layout[frame.node].children[frame.c + 1].bin
        r == insert_into_ibf_parent(frame.parent_kmers, child_kmers, 1, bin, frame.ibf,
                                    frame.is_root)
    IN  [frame EXCEPT !.ibf_positions[bin + 1] = ibf_pos,
                      !.ibf = r.ibf, !.parent_kmers = r.parent_kmers,
                      !.emplaced = @ \cup emplace_calls(child_kmers, 1, bin),
                      !.c = @ + 1, !.pc = "children"]

\* a scratch set that keeps its values
kmers_kept(kmers) == kmers

\* kmers.clear()
kmers_clear(kmers) == {}

\* the loop over the remaining records that always takes the first
start_from_first(node_data) == 0

\* the loop over the remaining records that always leaves out the first
start_after_first(node_data) == 1

\* size_t const start{(favourite_child != lemon::INVALID) ? 0u : 1u}
start(node_data) == IF node_data.favourite_child # INVALID THEN 0 ELSE 1

\* the streaming insert taken on every level
no_splitting_needed_any_level(is_root, record) == record.number_of_bins = 1

\* if (is_root && record.number_of_bins.back() == 1)
no_splitting_needed(is_root, record) == is_root /\ record.number_of_bins = 1

\* a user bin of the layout: its id, the first of its technical bins, their
\* number, and the hashes compute_kmers reads from its files
Record(idx, bin_index, number_of_bins, hashes) ==
    [idx |-> idx, bin_index |-> bin_index, number_of_bins |-> number_of_bins,
     hashes |-> hashes]

\* node_data; children are the merged bins other than the favourite child.
\* Without favourite child the max bin is a split bin, and its record is the
\* first of remaining_records.
NodeData(number_of_technical_bins, max_bin_index, favourite_child, children, remaining_records) ==
    [number_of_technical_bins |-> number_of_technical_bins,
     max_bin_index |-> max_bin_index, favourite_child |-> favourite_child,
     children |-> children, remaining_records |-> remaining_records]

\* one IBF: a user bin split over two bins, a single bin, an unused bin
FlatLayout ==
    <<NodeData(4, 0, INVALID, <<>>, <<Record(0, 0, 2, {1, 2, 3}), Record(1, 2, 1, {4})>>)>>

\* the max bin of the root is a merged bin
FavouriteLayout ==
    <<NodeData(3, 1, 2, <<>>, <<Record(0, 0, 1, {1, 2}), Record(1, 2, 1, {3})>>),
      NodeData(2, 0, INVALID, <<>>, <<Record(2, 0, 1, {4, 5}), Record(3, 1, 1, {6})>>)>>

\* three levels: a merged bin of the root that is not its max bin, and below
\* it a node whose max bin is merged
ThreeLevels ==
    <<NodeData(3, 0, INVALID, <<[node |-> 2, bin |-> 1]>>,
               <<Record(0, 0, 1, {1, 2, 3}), Record(1, 2, 1, {4})>>),
      NodeData(3, 2, 3, <<>>, <<Record(2, 0, 2, {5, 6, 7})>>),
      NodeData(2, 0, INVALID, <<>>, <<Record(3, 0, 1, {7, 8}), Record(4, 1, 1, {8, 1})>>)>>

\* a root with a favourite child, a second merged bin and a split bin; the
\* second child has an unused bin, and its max record is not in bin 0
TwoChildren ==
    <<NodeData(3, 0, 2, <<[node |-> 3, bin |-> 1]>>, <<Record(0, 2, 1, {1})>>),
      NodeData(2, 0, INVALID, <<>>, <<Record(1, 0, 1, {2, 3}), Record(2, 1, 1, {4})>>),
      NodeData(3, 1, INVALID, <<>>, <<Record(3, 1, 1, {5, 6}), Record(4, 0, 1, {7})>>)>>

Layouts == {FlatLayout, FavouriteLayout, ThreeLevels, TwoChildren}

\* the sketches and thresholds of the queries on the built HIBF
BuildSketches == {<<>>, <<1, 2>>, <<5, 6>>, <<7, 8>>, <<2, 3, 4>>}
BuildThresholds == 0..2

InitBuild ==
    /\ data_t = "hibf"
    /\ archive = <<>>
    /\ index = DefaultIndex(data_t)
    /\ IndexIdle
    /\ SearchIdle
    /\ ThresholdIdle
    /\ FunctionsIdle
    /\ BinSizeIdle
    /\ layout \in Layouts
    /\ data = [hibf |-> [ibf_vector |-> [l \in 1..Len(layout) |-> [bins |-> <<>>]],
                         next_ibf_id |-> [l \in 1..Len(layout) |-> <<>>],
                         user_bin_index |-> [l \in 1..Len(layout) |-> <<>>]],
               ibf_idx |-> 0]
    /\ stack = <<>>
    /\ returns = <<>>
    /\ hq = [asked |-> FALSE]

Top == stack[Len(stack)]
SetTop(frame) == [stack EXCEPT ![Len(stack)] = frame]
BuildRest == <<data_t, archive, index, indexVars, searchVars, thresholdVars, fn, binSizeVars>>

\* the caller: hierarchical_build(root_kmers, root, data, arguments, true)
CallRoot ==
    /\ stack = <<>>
    /\ data.ibf_idx = 0
    /\ stack' = <<hierarchical_build_enter(1, TRUE)>>
    /\ data' = [data EXCEPT !.ibf_idx = @ + 1]
    /\ UNCHANGED <<layout, returns, hq, BuildRest>>

\* initialise_max_bin_kmers: the recursive call for the favourite child, or
\* the k-mers and the user bin of the max record
InitialiseMaxBinKmers ==
    /\ stack # <<>>
    /\ Top.pc = "max_bin"
    /\ LET node_data == layout[Top.node]
           record == node_data.remaining_records[1]
       IN  IF node_data.favourite_child # INVALID
           THEN /\ stack' = Append(SetTop([Top EXCEPT !.pc = "favourite"]),
                                   hierarchical_build_enter(node_data.favourite_child, FALSE))
                /\ data' = [data EXCEPT !.ibf_idx = @ + 1]
           ELSE /\ stack' = SetTop([Top EXCEPT
                                !.kmers = compute_kmers(@, record),
                                !.filename_indices = update_user_bins(@, record),
                                !.updated = Append(@, [idx |-> record.idx, by |-> "max_bin"]),
                                !.max_bin_tbs = record.number_of_bins,
                                !.pc = "construct"])
                /\ data' = data
    /\ UNCHANGED <<layout, returns, hq, BuildRest>>

\* auto && ibf = construct_ibf(...); kmers.clear();
ConstructIbf ==
    /\ stack # <<>>
    /\ Top.pc = "construct"
    /\ LET node_data == layout[Top.node]
           r == construct_ibf(Top.parent_kmers, Top.kmers, Top.max_bin_tbs, node_data,
                              Top.is_root)
       IN  stack' = SetTop([Top EXCEPT
                        !.ibf = r.ibf, !.parent_kmers = r.parent_kmers,
                        !.emplaced = @ \cup emplace_calls(Top.kmers, Top.max_bin_tbs,
                                                          node_data.max_bin_index),
                        !.inserted = IF node_data.favourite_child # INVALID THEN @
                                     ELSE Append(@, [idx |-> node_data.remaining_records[1].idx,
                                                     by |-> "max_bin",
                                                     calls |-> emplace_calls(Top.kmers,
                                                                   Top.max_bin_tbs,
                                                                   node_data.max_bin_index)]),
                        !.kmers = kmers_clear(@), !.c = 0, !.pc = "children"])
    /\ UNCHANGED <<layout, data, returns, hq, BuildRest>>

\* loop_over_children: the recursive call for the next child, with an empty
\* set for its k-mers; after the last child, the loop over the records
LoopOverChildren ==
    /\ stack # <<>>
    /\ Top.pc = "children"
    /\ LET node_data == layout[Top.node]
       IN  IF Top.c < Len(node_data.children)
           THEN /\ stack' = Append(SetTop([Top EXCEPT !.pc = "child"]),
                                   hierarchical_build_enter(
                                       node_data.children[Top.c + 1].node, FALSE))
                /\ data' = [data EXCEPT !.ibf_idx = @ + 1]
           ELSE /\ stack' = SetTop([Top EXCEPT !.i = start(node_data), !.pc = "records"])
                /\ data' = data
    /\ UNCHANGED <<layout, returns, hq, BuildRest>>

\* one pass of the loop over the remaining records
InsertRecord ==
    /\ stack # <<>>
    /\ Top.pc = "records"
    /\ Top.i < Len(layout[Top.node].remaining_records)
    /\ LET record == layout[Top.node].remaining_records[Top.i + 1]
           kmers == compute_kmers(Top.kmers, record)
           r == insert_into_ibf_parent(Top.parent_kmers, kmers, record.number_of_bins,
                                       record.bin_index, Top.ibf, Top.is_root)
       IN  IF no_splitting_needed(Top.is_root, record)
           THEN stack' = SetTop([Top EXCEPT
                            !.ibf = insert_into_ibf_record(record, Top.ibf),
                            !.emplaced = @ \cup emplace_calls(record.hashes, 1,
                                                              record.bin_index),
                            !.inserted = Append(@, [idx |-> record.idx, by |-> "loop",
                                                    calls |-> emplace_calls(record.hashes, 1,
                                                                  record.bin_index)]),
                            !.filename_indices = update_user_bins(@, record),
                            !.updated = Append(@, [idx |-> record.idx, by |-> "loop"]),
                            !.kmers = kmers_clear(@), !.i = @ + 1])
           ELSE stack' = SetTop([Top EXCEPT
                            !.ibf = r.ibf, !.parent_kmers = r.parent_kmers,
                            !.emplaced = @ \cup emplace_calls(kmers, record.number_of_bins,
                                                              record.bin_index),
                            !.inserted = Append(@, [idx |-> record.idx, by |-> "loop",
                                                    calls |-> emplace_calls(kmers,
                                                                  record.number_of_bins,
                                                                  record.bin_index)]),
                            !.filename_indices = update_user_bins(@, record),
                            !.updated = Append(@, [idx |-> record.idx, by |-> "loop"]),
                            !.kmers = kmers_clear(kmers), !.i = @ + 1])
    /\ UNCHANGED <<layout, data, returns, hq, BuildRest>>

\* the IBF and its two vectors are stored at ibf_pos, and ibf_pos is returned
\* to the caller: initialise_max_bin_kmers, loop_over_children, or the build
Return_hierarchical_build ==
    /\ stack # <<>>
    /\ Top.pc = "records"
    /\ Top.i >= Len(layout[Top.node].remaining_records)
    /\ data' = [data EXCEPT
                    !.hibf.ibf_vector[Top.ibf_pos + 1] = Top.ibf,
                    !.hibf.next_ibf_id[Top.ibf_pos + 1] = Top.ibf_positions,
                    !.hibf.user_bin_index[Top.ibf_pos + 1] = Top.filename_indices]
    /\ returns' = Append(returns, [node |-> Top.node, is_root |-> Top.is_root,
                                   ibf_pos |-> Top.ibf_pos,
                                   parent_kmers |-> Top.parent_kmers,
                                   emplaced |-> Top.emplaced,
                                   inserted |-> Top.inserted, updated |-> Top.updated])
    /\ LET callers == SubSeq(stack, 1, Len(stack) - 1)
           caller == callers[Len(callers)]
       IN  stack' = IF callers = <<>> THEN <<>>
                    ELSE [callers EXCEPT ![Len(callers)] =
                            IF caller.pc = "favourite"
                            THEN favourite_child_returned(caller, Top.ibf_pos,
                                                          Top.parent_kmers)
                            ELSE child_returned(caller, Top.ibf_pos, Top.parent_kmers)]
    /\ UNCHANGED <<layout, hq, BuildRest>>

Built == stack = <<>> /\ returns # <<>>

\* membership_agent.bulk_contains(minimiser, threshold) on the built HIBF
Query ==
    /\ Built
    /\ \E minimiser \in BuildSketches, threshold \in BuildThresholds :
          hq' = [asked |-> TRUE, minimiser |-> minimiser, threshold |-> threshold,
                 result |-> bulk_contains(data.hibf, minimiser, threshold),
                 visited |-> hibf_visited(data.hibf, 0, minimiser, threshold)]
    /\ UNCHANGED <<layout, data, stack, returns, BuildRest>>

NextBuild ==
    \/ CallRoot
    \/ InitialiseMaxBinKmers
    \/ ConstructIbf
    \/ LoopOverChildren
    \/ InsertRecord
    \/ Return_hierarchical_build
    \/ Query

SpecBuild == InitBuild /\ [][NextBuild]_vars

(***************************************************************************)
(* Claims about the built HIBF.                                            *)
(***************************************************************************)
\* the position of the IBF of a node: what its call of hierarchical_build returned
ReturnOf(node) == returns[CHOOSE i \in 1..Len(returns) : returns[i].node = node]
Returned(node) == \E i \in 1..Len(returns) : returns[i].node = node

\* the merged bins of a node, as (technical bin, child node)
MergedBins(node) ==
    {<<layout[node].children[c].bin, layout[node].children[c].node>> :
        c \in 1..Len(layout[node].children)}
      \cup (IF layout[node].favourite_child # INVALID
            THEN {<<layout[node].max_bin_index, layout[node].favourite_child>>}
            ELSE {})

\* the technical bins of a record
BinsOf(record) == record.bin_index..(record.bin_index + record.number_of_bins - 1)
RecordsOf(node) ==
    {layout[node].remaining_records[i] : i \in 1..Len(layout[node].remaining_records)}

\* the hashes of all user bins stored in the subtree of a node
RECURSIVE SubtreeHashes(_)
SubtreeHashes(node) ==
    UNION {r.hashes : r \in RecordsOf(node)}
        \cup UNION {SubtreeHashes(m[2]) : m \in MergedBins(node)}

\* C16: after the build, next_ibf_id[l][t] = l exactly for the bins that are
\* not merged; for a merged bin it is the position the call for the child
\* returned, a position below l in the tree (larger than l); the root is IBF 0.
C16_NextIbfId ==
    Built =>
        /\ ReturnOf(1).ibf_pos = 0
        /\ ReturnOf(1).is_root
        /\ \A node \in 1..Len(layout) :
              LET l == ReturnOf(node).ibf_pos
                  next == data.hibf.next_ibf_id[l + 1]
              IN  /\ Len(next) = layout[node].number_of_technical_bins
                  /\ \A t \in 0..(Len(next) - 1) :
                        /\ next[t + 1] = l <=> ~(\E m \in MergedBins(node) : m[1] = t)
                        /\ \A m \in MergedBins(node) :
                              m[1] = t => /\ next[t + 1] = ReturnOf(m[2]).ibf_pos
                                          /\ next[t + 1] > l

C16_Witness ==
    /\ Built
    /\ Len(layout) = 3
    /\ data.hibf.next_ibf_id[1] = <<1, 2, 0>>

\* C17: after the build, user_bin_index[l][t] >= 0 exactly for the technical
\* bins of the records of the node, where it is the id of the user bin, on
\* each of its number_of_bins bins; on merged and unused bins it is -1.
C17_UserBinIndex ==
    Built =>
        \A node \in 1..Len(layout) :
            LET l == ReturnOf(node).ibf_pos
                ubi == data.hibf.user_bin_index[l + 1]
            IN  /\ Len(ubi) = layout[node].number_of_technical_bins
                /\ \A t \in 0..(Len(ubi) - 1) :
                      /\ ubi[t + 1] >= 0 <=> \E r \in RecordsOf(node) : t \in BinsOf(r)
                      /\ \A r \in RecordsOf(node) : t \in BinsOf(r) => ubi[t + 1] = r.idx
                      /\ (~\E r \in RecordsOf(node) : t \in BinsOf(r)) => ubi[t + 1] = -1

C17_Witness ==
    /\ Built
    /\ \E l \in 1..Len(layout) :
          /\ Len(data.hibf.user_bin_index[l]) = 3
          /\ data.hibf.user_bin_index[l][1] = data.hibf.user_bin_index[l][2]
          /\ data.hibf.user_bin_index[l][1] >= 0
          /\ data.hibf.user_bin_index[l][3] = -1
          /\ data.hibf.next_ibf_id[l][3] # l - 1

\* C18: when hierarchical_build returns for a node below the root, the
\* parent_kmers it was given hold every hash of every record of the node and
\* of all nodes below it; after the build a merged bin holds the hashes of
\* all user bins of the subtree of its child.
C18_MergedBinIsUnionOfSubtree ==
    /\ \A i \in 1..Len(returns) :
          ~returns[i].is_root => SubtreeHashes(returns[i].node) \subseteq returns[i].parent_kmers
    /\ Built =>
          \A node \in 1..Len(layout) : \A m \in MergedBins(node) :
              data.hibf.ibf_vector[ReturnOf(node).ibf_pos + 1].bins[m[1] + 1]
                  = SubtreeHashes(m[2])

C18_Witness ==
    /\ Built
    /\ \E i \in 1..Len(returns) :
          /\ ~returns[i].is_root
          /\ MergedBins(returns[i].node) # {}
          /\ Len(layout[returns[i].node].remaining_records) > 0
          /\ returns[i].parent_kmers = SubtreeHashes(returns[i].node)
          /\ Cardinality(returns[i].parent_kmers) >= 5

\* the count of the query in technical bin t (0-based) of IBF l
CountOf(l, t) == bulk_count(data.hibf.ibf_vector[l + 1], hq.minimiser)[t + 1]
IbfIds == 0..(Len(data.hibf.ibf_vector) - 1)
TechnicalBins(l) == 0..(Len(data.hibf.next_ibf_id[l + 1]) - 1)

\* every merged bin on the path from the root to IBF l reaches the threshold
RECURSIVE PathReaches(_)
PathReaches(l) ==
    \/ l = 0
    \/ \E p \in IbfIds : \E t \in TechnicalBins(p) :
          /\ p # l
          /\ data.hibf.next_ibf_id[p + 1][t + 1] = l
          /\ CountOf(p, t) >= hq.threshold
          /\ PathReaches(p)

\* IBF l and the IBFs below it
RECURSIVE Below(_)
Below(l) ==
    {l} \cup UNION {Below(data.hibf.next_ibf_id[l + 1][t + 1]) :
                        t \in {u \in TechnicalBins(l) : data.hibf.next_ibf_id[l + 1][u + 1] # l}}

\* C19: every id the HIBF membership returns belongs to a leaf bin whose
\* count in its IBF is >= threshold, and all merged bins on the path from the
\* root to that IBF have a count >= threshold; below a merged bin whose count
\* is smaller than the threshold no IBF is visited.
C19_PruningSoundness ==
    hq.asked =>
        /\ \A k \in 1..Len(hq.result) :
              \E l \in IbfIds : \E t \in TechnicalBins(l) :
                  /\ data.hibf.user_bin_index[l + 1][t + 1] = hq.result[k]
                  /\ data.hibf.next_ibf_id[l + 1][t + 1] = l
                  /\ CountOf(l, t) >= hq.threshold
                  /\ PathReaches(l)
        /\ \A l \in hq.visited : PathReaches(l)
        /\ \A p \in IbfIds : \A t \in TechnicalBins(p) :
              (data.hibf.next_ibf_id[p + 1][t + 1] # p /\ CountOf(p, t) < hq.threshold)
                  => Below(data.hibf.next_ibf_id[p + 1][t + 1]) \cap hq.visited = {}

\* a query that finds a user bin below one merged bin and is cut off at another
C19_Witness ==
    /\ hq.asked
    /\ hq.threshold = 2
    /\ Len(hq.result) = 1
    /\ \E l \in IbfIds \ {0} : \E t \in TechnicalBins(l) :
          /\ data.hibf.user_bin_index[l + 1][t + 1] = hq.result[1]
          /\ l \in hq.visited
    /\ \E l \in IbfIds : l \notin hq.visited
    /\ \E l \in IbfIds : \E t \in TechnicalBins(l) :
          /\ data.hibf.next_ibf_id[l + 1][t + 1] = l
          /\ data.hibf.user_bin_index[l + 1][t + 1] >= 0
          /\ CountOf(l, t) = 1

\* the IBF of a call once construct_ibf has made it, and the IBFs stored
IbfsWithCalls ==
    {[ibf |-> stack[d].ibf, emplaced |-> stack[d].emplaced] :
        d \in {e \in 1..Len(stack) : stack[e].pc \in {"children", "child", "records"}}}
      \cup {[ibf |-> data.hibf.ibf_vector[returns[i].ibf_pos + 1],
             emplaced |-> returns[i].emplaced] : i \in 1..Len(returns)}

\* C20: once emplace(h, j) was called on an IBF, whatever was emplaced after
\* it, bulk_count([h])[j] >= 1 and j is in bulk_contains([h], 1).
C20_NoFalseNegatives ==
    \A x \in IbfsWithCalls : \A e \in x.emplaced :
        /\ bulk_count(x.ibf, <<e[1]>>)[e[2] + 1] >= 1
        /\ e[2] \in ibf_bulk_contains(x.ibf, <<e[1]>>, 1)

\* an IBF with three values emplaced into one bin, and values in other bins
C20_Witness ==
    \E x \in IbfsWithCalls :
        /\ \E j \in 0..2 : Cardinality({e \in x.emplaced : e[2] = j}) >= 3
        /\ Cardinality({e[2] : e \in x.emplaced}) >= 3

\* all user bins of the layout
AllRecords == UNION {RecordsOf(node) : node \in 1..Len(layout)}

\* the number of hashes of the query that are hashes of the user bin
Shared(record) == Cardinality({i \in 1..Len(hq.minimiser) : hq.minimiser[i] \in record.hashes})

\* C21: for a threshold >= 1, every user bin that has at least threshold of
\* the query's hashes is returned by the membership query on the built HIBF,
\* wherever it sits in the tree and over however many technical bins it is split.
C21_NoFalseNegativesBeyondThreshold ==
    (hq.asked /\ hq.threshold >= 1)
        => \A r \in AllRecords :
              Shared(r) >= hq.threshold => \E k \in 1..Len(hq.result) : hq.result[k] = r.idx

(***************************************************************************)
(* SpecFunctions: do_parallel and insert_into_ibf, applied once to         *)
(* arguments from bounded sets.                                            *)
(***************************************************************************)
\* largest num_records and threads of do_parallel
MaxNumRecords == 10
MaxParallelThreads == 3
\* largest hash, largest number_of_bins and bin_index of insert_into_ibf
MaxHash == 5
MaxNumberOfBins == 3
MaxBinIndex == 1

InitFunctions ==
    /\ data_t = "ibf"
    /\ archive = <<>>
    /\ index = DefaultIndex(data_t)
    /\ IndexIdle
    /\ SearchIdle
    /\ ThresholdIdle
    /\ BuildIdle
    /\ FunctionsIdle
    /\ BinSizeIdle

FunctionsRest == <<data_t, archive, index, indexVars, searchVars, thresholdVars, buildVars,
                   binSizeVars>>

\* do_parallel(worker, num_records, threads): the invocations of the worker
DoParallel ==
    /\ fn.name = "none"
    /\ \E num_records \in 1..MaxNumRecords, threads \in 1..MaxParallelThreads :
          fn' = [name |-> "do_parallel", num_records |-> num_records, threads |-> threads,
                 invocations |-> [i \in 1..number_of_chunks(num_records, threads) |->
                                    do_parallel_range(i - 1, num_records, threads)]]
    /\ UNCHANGED FunctionsRest

\* do_parallel(worker, num_records, threads, output_results): the tasks
DoParallelAsync ==
    /\ fn.name = "none"
    /\ \E num_records \in 1..MaxNumRecords, threads \in 1..MaxParallelThreads :
          fn' = [name |-> "do_parallel_async", num_records |-> num_records,
                 threads |-> threads,
                 invocations |-> [i \in 1..threads |->
                                    do_parallel_async_range(i - 1, num_records, threads)]]
    /\ UNCHANGED FunctionsRest

\* insert_into_ibf(kmers, number_of_bins, bin_index, ibf, timer) on an empty
\* IBF that has one technical bin more than the call needs
InsertIntoIbf ==
    /\ fn.name = "none"
    /\ \E kmers \in SUBSET (1..MaxHash), number_of_bins \in 1..MaxNumberOfBins,
          bin_index \in 0..MaxBinIndex :
          fn' = [name |-> "insert_into_ibf", kmers |-> kmers,
                 number_of_bins |-> number_of_bins, bin_index |-> bin_index,
                 calls |-> emplace_calls(kmers, number_of_bins, bin_index),
                 ibf |-> insert_into_ibf(kmers, number_of_bins, bin_index,
                            [bins |-> [t \in 1..(bin_index + number_of_bins + 1) |-> {}]])]
    /\ UNCHANGED FunctionsRest

NextFunctions ==
    \/ DoParallel
    \/ DoParallelAsync
    \/ InsertIntoIbf

SpecFunctions == InitFunctions /\ [][NextFunctions]_vars

(***************************************************************************)
(* Claims about insert_into_ibf and do_parallel.                           *)
(***************************************************************************)
\* the technical bins of the call, and what each of them received
CallBins == fn.bin_index..(fn.bin_index + fn.number_of_bins - 1)
Chunk(j) == fn.ibf.bins[j + 1]

\* C22: a user bin split over s > 1 technical bins (with at least s hashes):
\* every one of the bins bin_index .. bin_index + s - 1 receives a chunk, and
\* the sizes of two chunks differ by at most n / s + 1.
C22_EveryBinReceivesAChunk ==
    (fn.name = "insert_into_ibf" /\ fn.number_of_bins > 1
                                 /\ Cardinality(fn.kmers) >= fn.number_of_bins)
        => /\ \A j \in CallBins : Chunk(j) # {}
           /\ \A j, k \in CallBins :
                 Cardinality(Chunk(j)) - Cardinality(Chunk(k))
                     <= Cardinality(fn.kmers) \div fn.number_of_bins + 1

\* C26: in insert_into_ibf, chunk_number < number_of_bins at every chunk,
\* every hash is emplaced into exactly one technical bin, that bin is one of
\* bin_index .. bin_index + number_of_bins - 1, and no other bin is written.
C26_ChunksStayInRange ==
    fn.name = "insert_into_ibf"
        => /\ \A c \in fn.calls : c[2] - fn.bin_index \in 0..(fn.number_of_bins - 1)
           /\ \A h \in fn.kmers :
                 /\ Cardinality({c \in fn.calls : c[1] = h}) = 1
                 /\ Cardinality({j \in CallBins : h \in Chunk(j)}) = 1
           /\ \A t \in 1..Len(fn.ibf.bins) : (t - 1) \notin CallBins => fn.ibf.bins[t] = {}
           /\ UNION {Chunk(j) : j \in CallBins} = fn.kmers

C26_Witness ==
    /\ fn.name = "insert_into_ibf"
    /\ Cardinality(fn.kmers) = 5
    /\ fn.number_of_bins = 3
    /\ fn.bin_index = 1
    /\ Cardinality(Chunk(1)) = 2
    /\ Cardinality(Chunk(3)) = 1

\* the records of an invocation
Range(inv) == inv.start..(inv.start + inv.extent - 1)

\* C25: the (start, extent) ranges of the invocations are pairwise disjoint
\* and cover exactly [0, num_records); the OpenMP overload makes at most
\* threads * threads invocations, each with 1 <= extent <= ceil(num_records /
\* threads^2), the async overload makes exactly threads invocations.
C25_RangesPartitionTheRecords ==
    fn.name \in {"do_parallel", "do_parallel_async"}
        => /\ \A i, j \in 1..Len(fn.invocations) :
                 i # j => Range(fn.invocations[i]) \cap Range(fn.invocations[j]) = {}
           /\ UNION {Range(fn.invocations[i]) : i \in 1..Len(fn.invocations)}
                 = 0..(fn.num_records - 1)
           /\ \A i \in 1..Len(fn.invocations) : fn.invocations[i].extent >= 0
           /\ fn.name = "do_parallel"
                 => /\ Len(fn.invocations) <= fn.threads * fn.threads
                    /\ \A i \in 1..Len(fn.invocations) :
                          fn.invocations[i].extent \in
                              1..divide_and_ceil(fn.num_records, fn.threads * fn.threads)
           /\ fn.name = "do_parallel_async" => Len(fn.invocations) = fn.threads

C25_Witness ==
    /\ fn.name = "do_parallel"
    /\ fn.threads = 2
    /\ Len(fn.invocations) = 3
    /\ fn.invocations[3] = [start |-> 4, extent |-> 1]

(***************************************************************************)
(* Claims about the worker of search_singular_ibf.                         *)
(***************************************************************************)
\* C23: within one worker invocation the result lines are handed to the
\* writer in the input order of the records: of two lines of the same
\* invocation, the earlier one in the output is the line of the earlier record.
C23_LinesOfAnInvocationInRecordOrder ==
    \A p, q \in 1..Len(synced_out) :
        (/\ p < q
         /\ synced_out[p].kind = "result"
         /\ synced_out[q].kind = "result"
         /\ synced_out[p].inv = synced_out[q].inv)
            => synced_out[p].rec < synced_out[q].rec

\* C23 witness: one invocation has written the lines of three records.
C23_Witness ==
    \E p, q, r \in 1..Len(synced_out) :
        /\ p < q /\ q < r
        /\ synced_out[p].kind = "result"
        /\ synced_out[p].inv = synced_out[q].inv
        /\ synced_out[q].inv = synced_out[r].inv

\* the number of hashes of the sketch that technical bin b (from 0) holds
CountInBin(b, minimiser) ==
    Cardinality({i \in 1..Len(minimiser) : minimiser[i] \in index.ibf.bins[b + 1]})

\* the bins whose count reaches the threshold of the sketch's size
BinsAtThreshold(minimiser) ==
    {b \in 0..(Len(index.ibf.bins) - 1) :
        CountInBin(b, minimiser) >= thresholder_get(arguments, Len(minimiser))}

\* C24: in the IBF branch the line of a query lists exactly the bins whose
\* count is >= the threshold of the query's minimiser count, each once and
\* in strictly ascending order; no bin below the threshold is listed.
C24_ListedBinsAreThoseAtThreshold ==
    data_t = "ibf"
        => \A j \in 1..Len(ResultCells) :
              LET c == ResultCells[j]
                  record == query_file[c.rec]
              IN  /\ c.text = record.id \o <<TAB>>
                              \o JoinComma(Ascending(BinsAtThreshold(record.minimiser)))
                              \o <<NEWLINE>>
                  /\ \A k \in 1..(Len(c.hits) - 1) : c.hits[k] < c.hits[k + 1]
                  /\ {c.hits[k] : k \in 1..Len(c.hits)} = BinsAtThreshold(record.minimiser)

\* C24 witness: a line lists a bin whose count equals a threshold of at
\* least 1 and leaves out a bin whose count is below it.
C24_Witness ==
    /\ data_t = "ibf"
    /\ \E j \in 1..Len(ResultCells) :
          LET minimiser == query_file[ResultCells[j].rec].minimiser
              threshold == thresholder_get(arguments, Len(minimiser))
          IN  /\ threshold >= 1
              /\ \E b \in BinsAtThreshold(minimiser) : CountInBin(b, minimiser) = threshold
              /\ \E b \in 0..(Len(index.ibf.bins) - 1) : CountInBin(b, minimiser) < threshold

(***************************************************************************)
(* Claims about the records of one call of hierarchical_build.             *)
(***************************************************************************)
\* the calls of hierarchical_build: those in progress and those that returned
CallsInProgress == {stack[d] : d \in 1..Len(stack)}
CallsReturned == {returns[d] : d \in 1..Len(returns)}

\* how often a record appears in a sequence of events
Times(events, idx) == Cardinality({k \in 1..Len(events) : events[k].idx = idx})

\* the record of a node with the given user bin
RecordOf(node, idx) == CHOOSE r \in RecordsOf(node) : r.idx = idx

\* C27: in one call of hierarchical_build every record of remaining_records
\* is processed exactly once (inserted once, update_user_bins called once);
\* the first record is processed by the max-bin initialisation, and not by
\* the record loop, exactly when the node has no favourite child, and by the
\* record loop when the max bin is merged; all others by the record loop.
C27_EachRecordProcessedOnce ==
    /\ \A f \in CallsInProgress \cup CallsReturned :
          \A r \in RecordsOf(f.node) : Times(f.inserted, r.idx) <= 1 /\ Times(f.updated, r.idx) <= 1
    /\ \A f \in CallsReturned :
          LET node_data == layout[f.node]
              first == node_data.remaining_records[1].idx
          IN  /\ \A r \in RecordsOf(f.node) :
                    Times(f.inserted, r.idx) = 1 /\ Times(f.updated, r.idx) = 1
              /\ Len(f.inserted) = Len(node_data.remaining_records)
              /\ Len(f.updated) = Len(node_data.remaining_records)
              /\ \A k \in 1..Len(f.inserted) :
                    f.inserted[k].by = "max_bin"
                        <=> (f.inserted[k].idx = first /\ node_data.favourite_child = INVALID)
              /\ \A k \in 1..Len(f.updated) :
                    f.updated[k].by = "max_bin"
                        <=> (f.updated[k].idx = first /\ node_data.favourite_child = INVALID)

\* C27 witness: a call for a node without favourite child and a call for a
\* node whose max bin is merged have returned, each with two records.
C27_Witness ==
    /\ \E f \in CallsReturned :
          layout[f.node].favourite_child = INVALID /\ Len(f.inserted) >= 2
    /\ \E f \in CallsReturned :
          layout[f.node].favourite_child # INVALID /\ Len(f.inserted) >= 2

\* C30: the scratch set is empty before each child and each record is
\* processed; the values emplaced for a record are hashes of that record and
\* go to its own technical bins, never to those of another record of the
\* IBF; at the root nothing is added to parent_kmers.
C30_ScratchSetIsClearedBetweenRecords ==
    /\ \A f \in CallsInProgress : f.pc \in {"children", "child", "records"} => f.kmers = {}
    /\ \A f \in CallsInProgress \cup CallsReturned :
          /\ \A k \in 1..Len(f.inserted) :
                LET record == RecordOf(f.node, f.inserted[k].idx)
                IN  \A c \in f.inserted[k].calls :
                       /\ c[1] \in record.hashes
                       /\ c[2] \in BinsOf(record)
                       /\ \A other \in RecordsOf(f.node) \ {record} : c[2] \notin BinsOf(other)
          /\ \A c \in f.emplaced :
                \A record \in RecordsOf(f.node) : c[2] \in BinsOf(record) => c[1] \in record.hashes
          /\ f.is_root => f.parent_kmers = {}

\* C30 witness: the root and a node below it have returned; the node below
\* has inserted two records and handed their hashes to its parent.
C30_Witness ==
    /\ \E f \in CallsReturned : f.is_root /\ Len(f.inserted) >= 1
    /\ \E f \in CallsReturned :
          ~f.is_root /\ Len(f.inserted) >= 2 /\ f.parent_kmers # {}

(***************************************************************************)
(* Claims about the thresholds of the general case.                        *)
(***************************************************************************)
\* the mass of "fewer than i minimisers are destroyed", not normalised, and
\* the total mass, for n minimisers
MassBelow(a, n, i) == SumSeq(SubSeq(proba_error(a, n), 1, i))
TotalMass(a, n) == SumSeq(proba_error(a, n))

\* C28: every threshold t the general case appends for n minimisers is
\* n - i for the first i in [0, n) at which the cumulative normalised
\* probability reaches tau; so 1 <= t <= n.
C28_ThresholdIsFirstIndexReachingTau ==
    (Computed /\ th.arguments.window_size > th.arguments.kmer_size
              /\ th.arguments.pattern_size >= th.arguments.window_size)
        => LET a == th.arguments
           IN  \A k \in 1..Len(th.thresholds) :
                  LET n == NMin(a) + k - 1
                      t == th.thresholds[k]
                      i == n - t
                  IN  /\ 1 <= t /\ t <= n
                      /\ i \in 0..(n - 1)
                      /\ MassBelow(a, n, i + 1) * TauUnit >= a.tau * TotalMass(a, n)
                      /\ \A j \in 0..(i - 1) :
                            MassBelow(a, n, j + 1) * TauUnit < a.tau * TotalMass(a, n)

\* C28 witness: a table of the general case has a threshold that is neither
\* the number of minimisers nor 1.
C28_Witness ==
    /\ Computed
    /\ th.arguments.window_size > th.arguments.kmer_size
    /\ th.arguments.pattern_size >= th.arguments.window_size
    /\ \E k \in 1..Len(th.thresholds) :
          th.thresholds[k] > 1 /\ th.thresholds[k] < NMin(th.arguments) + k - 1

(***************************************************************************)
(* SpecBinSize: detail::kmer_count_from_minimiser_files.  A file is named  *)
(* by <<bin, position in the bin>>; minimiser_files holds the file sizes.  *)
(***************************************************************************)
\* largest number of bins and largest file size
MaxBins == 2
MaxFileSize == 2

\* the files of one bin: one file of any size, or two files
BinFiles ==
    {<<size>> : size \in 0..MaxFileSize}
        \cup {<<1, MaxFileSize>>, <<MaxFileSize, 1>>, <<MaxFileSize, MaxFileSize>>}

\* std::filesystem::file_size(minimiser_file)
file_size(path) == minimiser_files[path[1]][path[2]]

\* the files of the bins first .. last, in the order of the worker's two loops
RECURSIVE file_names(_, _, _)
file_names(bins, first, last) ==
    IF first > last THEN <<>>
    ELSE [j \in 1..Len(bins[first]) |-> <<first, j>>] \o file_names(bins, first + 1, last)

\* call_parallel_on_bins(worker, bin_path, threads): the bins are cut into
\* chunks of chunk_size bins, and the worker is invoked once for every chunk
call_parallel_on_bins(bins, chunk_size) ==
    [c \in 1..divide_and_ceil(Len(bins), chunk_size) |->
        [pc |-> "scan",
         file_names |-> file_names(bins, (c - 1) * chunk_size + 1,
                                   Min(c * chunk_size, Len(bins))),
         max_filesize |-> 0, biggest_file |-> <<>>]]

\* the worker's loops over its files: the first file of the largest size
RECURSIVE worker_scan(_, _)
worker_scan(names, local) ==
    IF names = <<>> THEN local
    ELSE worker_scan(Tail(names),
                     IF file_size(Head(names)) > local.max_filesize
                     THEN [local EXCEPT !.max_filesize = file_size(Head(names)),
                                        !.biggest_file = Head(names)]
                     ELSE local)

\* a callback that does not wait for the mutex
lock_guard_absent(mutex) == TRUE

\* std::lock_guard<std::mutex> guard{callback_mutex}: blocks while it is held
lock_guard(mutex) == mutex = 0

\* the state at the call of call_parallel_on_bins.  compute_bin_size asserts
\* max_count > 0: the k-mer count of the biggest file is positive, so some
\* minimiser file is not empty.
InitBinSize ==
    /\ data_t = "ibf"
    /\ archive = <<>>
    /\ index = DefaultIndex(data_t)
    /\ IndexIdle
    /\ SearchIdle
    /\ ThresholdIdle
    /\ BuildIdle
    /\ FunctionsIdle
    /\ \E n \in 1..MaxBins : minimiser_files \in [1..n -> BinFiles]
    /\ \E b \in 1..Len(minimiser_files) : \E j \in 1..Len(minimiser_files[b]) :
          minimiser_files[b][j] > 0
    /\ \E chunk_size \in 1..Len(minimiser_files) :
          workers = call_parallel_on_bins(minimiser_files, chunk_size)
    /\ callback_mutex = 0
    /\ max_filesize = 0
    /\ biggest_file = <<>>

BinSizeRest == <<data_t, archive, index, indexVars, searchVars, thresholdVars, buildVars, fn>>

\* the worker's loops, then the call of the callback
WorkerScan(w) ==
    /\ workers[w].pc = "scan"
    /\ workers' = [workers EXCEPT ![w] =
                      [worker_scan(@.file_names, @) EXCEPT !.pc = "callback"]]
    /\ UNCHANGED <<minimiser_files, callback_mutex, max_filesize, biggest_file, BinSizeRest>>

\* callback, line 30: the guard takes the mutex
CallbackLock(w) ==
    /\ workers[w].pc = "callback"
    /\ lock_guard(callback_mutex)
    /\ callback_mutex' = w
    /\ workers' = [workers EXCEPT ![w].pc = "test"]
    /\ UNCHANGED <<minimiser_files, max_filesize, biggest_file, BinSizeRest>>

\* callback, line 31: if (size > max_filesize)
CallbackTest(w) ==
    /\ workers[w].pc = "test"
    /\ workers' = [workers EXCEPT ![w].pc =
                      IF workers[w].max_filesize > max_filesize THEN "set_size" ELSE "unlock"]
    /\ UNCHANGED <<minimiser_files, callback_mutex, max_filesize, biggest_file, BinSizeRest>>

\* callback, line 33: max_filesize = size
CallbackSetSize(w) ==
    /\ workers[w].pc = "set_size"
    /\ max_filesize' = workers[w].max_filesize
    /\ workers' = [workers EXCEPT ![w].pc = "set_path"]
    /\ UNCHANGED <<minimiser_files, callback_mutex, biggest_file, BinSizeRest>>

\* callback, line 34: biggest_file = path
CallbackSetPath(w) ==
    /\ workers[w].pc = "set_path"
    /\ biggest_file' = workers[w].biggest_file
    /\ workers' = [workers EXCEPT ![w].pc = "unlock"]
    /\ UNCHANGED <<minimiser_files, callback_mutex, max_filesize, BinSizeRest>>

\* callback, line 36: the guard releases the mutex; the worker returns
CallbackUnlock(w) ==
    /\ workers[w].pc = "unlock"
    /\ callback_mutex' = 0
    /\ workers' = [workers EXCEPT ![w].pc = "done"]
    /\ UNCHANGED <<minimiser_files, max_filesize, biggest_file, BinSizeRest>>

NextBinSize ==
    \/ \E w \in DOMAIN workers : WorkerScan(w)
    \/ \E w \in DOMAIN workers : CallbackLock(w)
    \/ \E w \in DOMAIN workers : CallbackTest(w)
    \/ \E w \in DOMAIN workers : CallbackSetSize(w)
    \/ \E w \in DOMAIN workers : CallbackSetPath(w)
    \/ \E w \in DOMAIN workers : CallbackUnlock(w)

SpecBinSize == InitBinSize /\ [][NextBinSize]_vars

\* all files, the largest size among them, and the workers inside the callback
AllFiles ==
    {path \in (1..Len(minimiser_files)) \X (1..2) : path[2] <= Len(minimiser_files[path[1]])}
LargestSize == CHOOSE m \in 0..MaxFileSize :
                  /\ \E path \in AllFiles : file_size(path) = m
                  /\ \A path \in AllFiles : file_size(path) <= m
InCallback == {w \in DOMAIN workers : workers[w].pc \in {"test", "set_size", "set_path", "unlock"}}

====
